---- MODULE Spec2Model ----
(***************************************************************************)
(* Kubernify: verification of deployed workload versions and stability.   *)
(* A model of the verification driver (cli.run_verification), the         *)
(* component mapper, the version verifier, the stability auditor and the  *)
(* image-reference parser.                                                 *)
(*                                                                         *)
(* Strings are sequences of one-character strings, so that substring      *)
(* tests, splitting and joining are computed as the code computes them.   *)
(* An optional value is a sequence of length 0 (None) or 1 (the value).   *)
(***************************************************************************)
EXTENDS Integers, Sequences, FiniteSets, TLC

None == <<>>

Some(x) == <<x>>

\* ------------------------------------------------------------------------
\* String helpers (Python str methods used by the code)
\* ------------------------------------------------------------------------

\* `c in s` for a single character c
HasChar(s, c) == \E i \in 1..Len(s) : s[i] = c

\* s.index(c): position of the first occurrence of c (0 when absent)
IndexOf(s, c) ==
    IF HasChar(s, c)
    THEN CHOOSE i \in 1..Len(s) : s[i] = c /\ \A j \in 1..(i - 1) : s[j] # c
    ELSE 0

\* position of the last occurrence of c (0 when absent)
LastIndexOf(s, c) ==
    IF HasChar(s, c)
    THEN CHOOSE i \in 1..Len(s) : s[i] = c /\ \A j \in (i + 1)..Len(s) : s[j] # c
    ELSE 0

\* `p in s` for strings: p occurs as a contiguous substring of s
IsSubstr(p, s) ==
    \E i \in 0..(Len(s) - Len(p)) : \A j \in 1..Len(p) : s[i + j] = p[j]

\* the whitespace characters of the images explored
Whitespace == {" ", "\t"}

\* s.strip(): drop leading and trailing whitespace
RECURSIVE lstrip(_)
lstrip(s) == IF s # <<>> /\ s[1] \in Whitespace THEN lstrip(Tail(s)) ELSE s

RECURSIVE rstrip(_)
rstrip(s) == IF s # <<>> /\ s[Len(s)] \in Whitespace THEN rstrip(SubSeq(s, 1, Len(s) - 1)) ELSE s

strip(s) == rstrip(lstrip(s))

\* s.split(c): the list of segments between occurrences of c
RECURSIVE split(_, _)
split(s, c) ==
    LET i == IndexOf(s, c)
    IN  IF i = 0 THEN <<s>>
        ELSE <<SubSeq(s, 1, i - 1)>> \o split(SubSeq(s, i + 1, Len(s)), c)

\* c.join(segs)
RECURSIVE join(_, _)
join(segs, c) ==
    IF segs = <<>> THEN <<>>
    ELSE IF Len(segs) = 1 THEN segs[1]
    ELSE segs[1] \o <<c>> \o join(Tail(segs), c)

\* list.index(x): position of the first element equal to x (0 when absent)
ListIndex(l, x) ==
    IF \E i \in 1..Len(l) : l[i] = x
    THEN CHOOSE i \in 1..Len(l) : l[i] = x /\ \A j \in 1..(i - 1) : l[j] # x
    ELSE 0

\* ------------------------------------------------------------------------
\* image_parser.py
\* ------------------------------------------------------------------------

DOCKER_IO == <<"d", "o", "c", "k", "e", "r", ".", "i", "o">>

INDEX_DOCKER_IO == <<"i", "n", "d", "e", "x", ".", "d", "o", "c", "k", "e", "r", ".", "i", "o">>

REGISTRY_1_DOCKER_IO ==
    <<"r", "e", "g", "i", "s", "t", "r", "y", "-", "1", ".", "d", "o", "c", "k", "e", "r", ".", "i", "o">>

\* _DOCKER_HUB_HOSTS
DOCKER_HUB_HOSTS == {DOCKER_IO, INDEX_DOCKER_IO, REGISTRY_1_DOCKER_IO}

DOCKER_HUB_CANONICAL == DOCKER_IO

LIBRARY == <<"l", "i", "b", "r", "a", "r", "y">>

LATEST == <<"l", "a", "t", "e", "s", "t">>

has_registry_host(first_segment) == HasChar(first_segment, ".") \/ HasChar(first_segment, ":")

\* _normalize_docker_hub: registry is an optional string
normalize_docker_hub(registry, path_segments) ==
    LET reg == IF registry # None /\ registry[1] # <<>> /\ registry[1] \in DOCKER_HUB_HOSTS
               THEN Some(DOCKER_HUB_CANONICAL) ELSE registry
        is_docker_hub == reg = None \/ reg = Some(DOCKER_HUB_CANONICAL)
    IN  [registry |-> reg,
         path_segments |-> IF is_docker_hub /\ Len(path_segments) = 1
                           THEN <<LIBRARY, path_segments[1]>> ELSE path_segments]

\* step 5 raising when the anchor is not among the path segments
parse_component_anchor_required(image, registry, path_segments, version, repository_anchor) ==
    IF ListIndex(path_segments, repository_anchor) = 0 THEN [ok |-> FALSE]
    ELSE [ok |-> TRUE,
          component |-> IF ListIndex(path_segments, repository_anchor) = Len(path_segments)
                        THEN repository_anchor
                        ELSE path_segments[ListIndex(path_segments, repository_anchor) + 1],
          version |-> version,
          sub_image |-> IF Len(path_segments) > ListIndex(path_segments, repository_anchor) + 1
                        THEN Some(join(SubSeq(path_segments,
                                              ListIndex(path_segments, repository_anchor) + 2,
                                              Len(path_segments)), "/"))
                        ELSE None,
          full_image |-> image,
          registry |-> registry]

\* step 5 taking the last path segment as the component, anchor or not
parse_component_last_segment(image, registry, path_segments, version, repository_anchor) ==
    [ok |-> TRUE, component |-> path_segments[Len(path_segments)], version |-> version,
     sub_image |-> None, full_image |-> image, registry |-> registry]

\* step 5 without the edge case of the anchor being the last segment: the
\* component is taken from the empty rest
parse_component_anchor_last_empty(image, registry, path_segments, version, repository_anchor) ==
    [ok |-> TRUE,
     component |-> IF ListIndex(path_segments, repository_anchor) = 0
                   THEN path_segments[Len(path_segments)]
                   ELSE IF ListIndex(path_segments, repository_anchor) = Len(path_segments)
                   THEN <<>>
                   ELSE path_segments[ListIndex(path_segments, repository_anchor) + 1],
     version |-> version, sub_image |-> None, full_image |-> image, registry |-> registry]

\* parse_image_reference, step 5 and the result (lines 76-101): the anchor
\* is looked up in the path segments and the component taken after it
parse_component(image, registry, path_segments, version, repository_anchor) ==
    LET anchor_index == ListIndex(path_segments, repository_anchor)
        component_segments == SubSeq(path_segments, anchor_index + 1, Len(path_segments))
    IN  [ok |-> TRUE,
         component |-> IF anchor_index = 0 THEN path_segments[Len(path_segments)]
                       ELSE IF component_segments = <<>> THEN repository_anchor
                       ELSE component_segments[1],
         version |-> version,
         sub_image |-> IF anchor_index # 0 /\ Len(component_segments) > 1
                       THEN Some(join(Tail(component_segments), "/")) ELSE None,
         full_image |-> image,
         registry |-> registry]

\* parse_image_reference, steps 3 and 4 (lines 63-74): registry host and
\* Docker Hub normalisation
parse_registry(image, segments, version, repository_anchor) ==
    LET hasReg == Len(segments) > 1 /\ has_registry_host(segments[1])
    IN  parse_component(image,
                        normalize_docker_hub(IF hasReg THEN Some(segments[1]) ELSE None,
                                             IF hasReg THEN Tail(segments) ELSE segments).registry,
                        normalize_docker_hub(IF hasReg THEN Some(segments[1]) ELSE None,
                                             IF hasReg THEN Tail(segments) ELSE segments).path_segments,
                        version, repository_anchor)

\* parse_image_reference, step 2 (lines 53-61): the tag is what follows the
\* last ":" of the last segment (rsplit(":", 1)), "latest" without one
parse_tag(image, segments, repository_anchor) ==
    LET last_segment == segments[Len(segments)]
        k == LastIndexOf(last_segment, ":")
    IN  parse_registry(image,
                       IF HasChar(last_segment, ":")
                       THEN [segments EXCEPT ![Len(segments)] = SubSeq(last_segment, 1, k - 1)]
                       ELSE segments,
                       IF HasChar(last_segment, ":")
                       THEN SubSeq(last_segment, k + 1, Len(last_segment))
                       ELSE LATEST,
                       repository_anchor)

\* step 1 without the @-suffix dropped
parse_stripped_keeping_suffix(image, repository_anchor) ==
    parse_tag(image, split(image, "/"), repository_anchor)

\* parse_image_reference, step 1 (lines 48-54): an @-suffix is dropped and
\* the rest split at "/"
parse_stripped(image, repository_anchor) ==
    parse_tag(image,
              split(IF HasChar(image, "@") THEN SubSeq(image, 1, IndexOf(image, "@") - 1)
                    ELSE image, "/"),
              repository_anchor)

\* parse_image_reference: [ok |-> FALSE] stands for the raised ValueError
parse_image_reference(image, repository_anchor) ==
    IF image = <<>> \/ strip(image) = <<>> THEN [ok |-> FALSE]
    ELSE parse_stripped(strip(image), repository_anchor)

\* ------------------------------------------------------------------------
\* models.py
\* ------------------------------------------------------------------------

DEFAULT_RESTART_THRESHOLD == 3

RETRY_INTERVAL_SECONDS == 10

WorkloadType == {"Deployment", "StatefulSet", "DaemonSet", "Job", "CronJob"}

VerificationStatus == {"PASS", "FAIL", "TIMEOUT", "SKIPPED"}

\* exit_code with TIMEOUT missing from the table
exit_code_without_timeout(status) == IF status = "PASS" THEN 0 ELSE 1

\* VerificationStatus.exit_code: _EXIT_CODES.get(self, 1)
exit_code(status) ==
    CASE status = "PASS" -> 0
      [] status = "TIMEOUT" -> 2
      [] OTHER -> 1

\* PodInfo built from a pod (the fields copied verbatim from the pod)
PodInfo(pod) == [name |-> pod.name, phase |-> pod.phase]

\* VersionVerificationResults()
EmptyVerificationResults == [errors |-> <<>>, components |-> <<>>]

\* StabilityAuditResult(): all five flags default to False
DefaultAuditResult ==
    [converged |-> FALSE, revision_consistent |-> FALSE, pods_healthy |-> FALSE,
     scheduling_complete |-> FALSE, job_complete |-> FALSE, errors |-> <<>>]

\* ------------------------------------------------------------------------
\* cli.py: container extraction and component map
\* ------------------------------------------------------------------------

\* _containers_from_spec: (image, container_type, pod_info) triples, init first
containers_from_spec(init_containers, app_containers, pod_info) ==
    [i \in 1..Len(init_containers) |->
        [image |-> init_containers[i], container_type |-> "init", pod_info |-> pod_info]]
    \o
    [i \in 1..Len(app_containers) |->
        [image |-> app_containers[i], container_type |-> "app", pod_info |-> pod_info]]

RECURSIVE containers_of_pods(_)
containers_of_pods(pods) ==
    IF pods = <<>> THEN <<>>
    ELSE containers_from_spec(pods[1].init_containers, pods[1].containers, Some(PodInfo(pods[1])))
         \o containers_of_pods(Tail(pods))

\* _extract_containers
extract_containers(workload) ==
    IF workload.pods # <<>> THEN containers_of_pods(workload.pods)
    ELSE IF workload.pod_spec # None
         THEN containers_from_spec(workload.pod_spec[1].init_containers,
                                   workload.pod_spec[1].containers, None)
         ELSE <<>>

\* the grouping test of _build_or_update_entry
EntryMatches(entry, workload_name, workload_type, parsed) ==
    /\ entry.workload_name = workload_name
    /\ entry.workload_type = workload_type
    /\ entry.container_name = parsed.component
    /\ entry.actual_version = parsed.version

\* _build_or_update_entry that never finds an existing entry
build_or_update_entry_always_new(component_map, component, workload_name, workload_type, parsed, container_type, pod_info) ==
    LET bucket == IF component \in DOMAIN component_map THEN component_map[component] ELSE <<>>
    IN  [c \in DOMAIN component_map \cup {component} |->
            IF c = component
            THEN Append(bucket,
                        [workload_name |-> workload_name,
                         workload_type |-> workload_type,
                         container_name |-> parsed.component,
                         container_type |-> container_type,
                         actual_version |-> parsed.version,
                         pods |-> IF pod_info # None THEN <<pod_info[1]>> ELSE <<>>])
            ELSE component_map[c]]

\* _build_or_update_entry on a defaultdict(list): returns the updated map
build_or_update_entry(component_map, component, workload_name, workload_type, parsed, container_type, pod_info) ==
    LET bucket == IF component \in DOMAIN component_map THEN component_map[component] ELSE <<>>
        hits == {i \in 1..Len(bucket) : EntryMatches(bucket[i], workload_name, workload_type, parsed)}
        first == CHOOSE i \in hits : \A j \in hits : i <= j
        newBucket ==
            IF hits # {}
            THEN IF pod_info # None
                 THEN [bucket EXCEPT ![first].pods = Append(@, pod_info[1])]
                 ELSE bucket
            ELSE Append(bucket,
                        [workload_name |-> workload_name,
                         workload_type |-> workload_type,
                         container_name |-> parsed.component,
                         container_type |-> container_type,
                         actual_version |-> parsed.version,
                         pods |-> IF pod_info # None THEN <<pod_info[1]>> ELSE <<>>])
    IN  [c \in DOMAIN component_map \cup {component} |->
            IF c = component THEN newBucket ELSE component_map[c]]

\* _should_skip that skips nothing
should_skip_never(skip_patterns, container_name, workload_name) == FALSE

\* _should_skip matching the patterns against the container name only
should_skip_container_only(skip_patterns, container_name, workload_name) ==
    \E i \in 1..Len(skip_patterns) : IsSubstr(skip_patterns[i], container_name)

\* _should_skip: some pattern is a substring of the container or workload name
should_skip(skip_patterns, container_name, workload_name) ==
    \E i \in 1..Len(skip_patterns) :
        IsSubstr(skip_patterns[i], container_name) \/ IsSubstr(skip_patterns[i], workload_name)

\* `c in manifest` for a manifest given as a list of (name, version) items
InManifest(manifest, c) == \E i \in 1..Len(manifest) : manifest[i].name = c

\* lines 253-267 of construct_component_map: a parsed container is dropped
\* when its component is not in the manifest or a skip pattern matches
map_parsed(component_map, workload, c, parsed, manifest, skip_patterns) ==
    IF ~parsed.ok THEN component_map
    ELSE IF ~InManifest(manifest, parsed.component) THEN component_map
    ELSE IF should_skip(skip_patterns, parsed.component, workload.name) THEN component_map
    ELSE build_or_update_entry(component_map, parsed.component, workload.name,
                               workload.type, parsed, c.container_type, c.pod_info)

\* one pass of the inner loop of construct_component_map
map_container(component_map, workload, c, manifest, repository_anchor, skip_patterns) ==
    map_parsed(component_map, workload, c, parse_image_reference(c.image, repository_anchor),
               manifest, skip_patterns)

RECURSIVE map_containers(_, _, _, _, _, _)
map_containers(component_map, workload, cs, manifest, repository_anchor, skip_patterns) ==
    IF cs = <<>> THEN component_map
    ELSE map_containers(
            map_container(component_map, workload, cs[1], manifest, repository_anchor, skip_patterns),
            workload, Tail(cs), manifest, repository_anchor, skip_patterns)

RECURSIVE map_workloads(_, _, _, _, _)
map_workloads(component_map, workloads, manifest, repository_anchor, skip_patterns) ==
    IF workloads = <<>> THEN component_map
    ELSE map_workloads(
            map_containers(component_map, workloads[1], extract_containers(workloads[1]),
                           manifest, repository_anchor, skip_patterns),
            Tail(workloads), manifest, repository_anchor, skip_patterns)

\* construct_component_map
construct_component_map(workloads, manifest, repository_anchor, skip_containers) ==
    map_workloads(<<>>, workloads, manifest, repository_anchor, skip_containers)

\* ------------------------------------------------------------------------
\* Component mapper with aliases (spec 4.D build_map; the alias handling that
\* tests/test_version_verification.py exercises through reverse_aliases)
\* ------------------------------------------------------------------------

\* step 2 taken as if no alias were configured
mapped_component_unaliased(reverse_aliases, component) == component

\* step 2: reverse_aliases.get(parsed.component, parsed.component)
mapped_component(reverse_aliases, component) ==
    IF component \in DOMAIN reverse_aliases THEN reverse_aliases[component] ELSE component

\* steps 2-5 for one parsed container: the entry is filed under the mapped
\* component, keyed by the parsed component and version
build_map_parsed(component_map, workload, c, parsed, manifest, skip_patterns, reverse_aliases) ==
    IF ~parsed.ok THEN component_map
    ELSE IF ~InManifest(manifest, mapped_component(reverse_aliases, parsed.component))
    THEN component_map
    ELSE IF should_skip(skip_patterns, parsed.component, workload.name) THEN component_map
    ELSE build_or_update_entry(component_map, mapped_component(reverse_aliases, parsed.component),
                               workload.name, workload.type, parsed, c.container_type, c.pod_info)

RECURSIVE build_map_containers(_, _, _, _, _, _, _)
build_map_containers(component_map, workload, cs, manifest, anchor, skip_patterns, reverse_aliases) ==
    IF cs = <<>> THEN component_map
    ELSE build_map_containers(
            build_map_parsed(component_map, workload, cs[1],
                             parse_image_reference(cs[1].image, anchor),
                             manifest, skip_patterns, reverse_aliases),
            workload, Tail(cs), manifest, anchor, skip_patterns, reverse_aliases)

RECURSIVE build_map_workloads(_, _, _, _, _, _)
build_map_workloads(component_map, workloads, manifest, anchor, skip_patterns, reverse_aliases) ==
    IF workloads = <<>> THEN component_map
    ELSE build_map_workloads(
            build_map_containers(component_map, workloads[1], extract_containers(workloads[1]),
                                 manifest, anchor, skip_patterns, reverse_aliases),
            Tail(workloads), manifest, anchor, skip_patterns, reverse_aliases)

\* build_map(workloads, manifest, anchor, skip_patterns, reverse_aliases)
build_map(workloads, manifest, anchor, skip_patterns, reverse_aliases) ==
    build_map_workloads(<<>>, workloads, manifest, anchor, skip_patterns, reverse_aliases)

\* ------------------------------------------------------------------------
\* cli.py: validation and version verification
\* ------------------------------------------------------------------------

\* validate_manifest: one "not found in cluster" message per missing component
validate_manifest(manifest, component_map) ==
    LET missing(item) == item.name \notin DOMAIN component_map
        items == SelectSeq(manifest, missing)
    IN  [i \in 1..Len(items) |-> [msg |-> "Component not found in cluster", component |-> items[i].name]]

\* verify_required_workloads matching a pattern against whole names only
verify_required_workloads_exact(required_workloads, discovered_workloads) ==
    LET found_names == {discovered_workloads[i].name : i \in 1..Len(discovered_workloads)}
        absent(required) == required \notin found_names
        items == SelectSeq(required_workloads, absent)
    IN  [i \in 1..Len(items) |-> [msg |-> "Required workload not found", required |-> items[i]]]

\* verify_required_workloads: one message per pattern found in no discovered name
verify_required_workloads(required_workloads, discovered_workloads) ==
    LET found_names == {discovered_workloads[i].name : i \in 1..Len(discovered_workloads)}
        absent(required) == ~\E name \in found_names : IsSubstr(required, name)
        items == SelectSeq(required_workloads, absent)
    IN  [i \in 1..Len(items) |-> [msg |-> "Required workload not found", required |-> items[i]]]

\* "Workload has 0 running pods (version from pod spec: X)"
ZeroPodsError(actual) == [msg |-> "0 running pods", version |-> actual]

\* "Version mismatch: expected X, found Y"
MismatchError(expected, actual) == [msg |-> "expected, found", expected |-> expected, found |-> actual]

\* _verify_component_entry with the version comparison left out
verify_component_entry_no_compare(entry, expected_version, allow_zero_replicas) ==
    IF entry.pods = <<>> /\ ~allow_zero_replicas
    THEN [workload |-> entry.workload_name, type |-> entry.workload_type,
          container |-> entry.container_name, status |-> "FAIL",
          error |-> Some(ZeroPodsError(entry.actual_version))]
    ELSE [workload |-> entry.workload_name, type |-> entry.workload_type,
          container |-> entry.container_name, status |-> "PASS", error |-> None]

\* _verify_component_entry with the two checks in the other order
verify_component_entry_version_first(entry, expected_version, allow_zero_replicas) ==
    IF entry.actual_version # expected_version
    THEN [workload |-> entry.workload_name, type |-> entry.workload_type,
          container |-> entry.container_name, status |-> "FAIL",
          error |-> Some(MismatchError(expected_version, entry.actual_version))]
    ELSE IF entry.pods = <<>> /\ ~allow_zero_replicas
    THEN [workload |-> entry.workload_name, type |-> entry.workload_type,
          container |-> entry.container_name, status |-> "FAIL",
          error |-> Some(ZeroPodsError(entry.actual_version))]
    ELSE [workload |-> entry.workload_name, type |-> entry.workload_type,
          container |-> entry.container_name, status |-> "PASS", error |-> None]

\* _verify_component_entry
verify_component_entry(entry, expected_version, allow_zero_replicas) ==
    LET base == [workload |-> entry.workload_name, type |-> entry.workload_type,
                 container |-> entry.container_name]
    IN  IF entry.pods = <<>> /\ ~allow_zero_replicas
        THEN [workload |-> base.workload, type |-> base.type, container |-> base.container,
              status |-> "FAIL", error |-> Some(ZeroPodsError(entry.actual_version))]
        ELSE IF entry.actual_version # expected_version
        THEN [workload |-> base.workload, type |-> base.type, container |-> base.container,
              status |-> "FAIL", error |-> Some(MismatchError(expected_version, entry.actual_version))]
        ELSE [workload |-> base.workload, type |-> base.type, container |-> base.container,
              status |-> "PASS", error |-> None]

\* verify_versions' per-component body reporting a failing component once,
\* however many of its entries fail
verify_component_first_failure_only(item, component_map, allow_zero_replicas) ==
    IF item.name \notin DOMAIN component_map
    THEN LET m == [msg |-> "Component not found", component |-> item.name]
         IN  [comp |-> [status |-> "FAIL", errors |-> <<m>>, workloads |-> <<>>],
              top  |-> <<m>>]
    ELSE LET entries == component_map[item.name]
             res == [i \in 1..Len(entries) |->
                        verify_component_entry(entries[i], item.version, allow_zero_replicas)]
             failed(r) == r.status = "FAIL"
             fails == SelectSeq(res, failed)
         IN  [comp |-> [status |-> IF fails # <<>> THEN "FAIL" ELSE "PASS",
                        errors |-> [i \in 1..Len(fails) |->
                                       [workload |-> fails[i].workload, error |-> fails[i].error[1]]],
                        workloads |-> res],
              top  |-> IF fails = <<>> THEN <<>>
                       ELSE <<[component |-> item.name, workload |-> fails[1].workload,
                               error |-> fails[1].error[1]]>>]

\* the per-component body of verify_versions: the component's result and the
\* messages it adds to the top-level error list
verify_component(item, component_map, allow_zero_replicas) ==
    IF item.name \notin DOMAIN component_map
    THEN LET m == [msg |-> "Component not found", component |-> item.name]
         IN  [comp |-> [status |-> "FAIL", errors |-> <<m>>, workloads |-> <<>>],
              top  |-> <<m>>]
    ELSE LET entries == component_map[item.name]
             res == [i \in 1..Len(entries) |->
                        verify_component_entry(entries[i], item.version, allow_zero_replicas)]
             failed(r) == r.status = "FAIL"
             fails == SelectSeq(res, failed)
         IN  [comp |-> [status |-> IF fails # <<>> THEN "FAIL" ELSE "PASS",
                        errors |-> [i \in 1..Len(fails) |->
                                       [workload |-> fails[i].workload, error |-> fails[i].error[1]]],
                        workloads |-> res],
              top  |-> [i \in 1..Len(fails) |->
                           [component |-> item.name, workload |-> fails[i].workload,
                            error |-> fails[i].error[1]]]]

RECURSIVE verify_errors(_, _, _)
verify_errors(manifest, component_map, allow_zero_replicas) ==
    IF manifest = <<>> THEN <<>>
    ELSE verify_component(manifest[1], component_map, allow_zero_replicas).top
         \o verify_errors(Tail(manifest), component_map, allow_zero_replicas)

\* the last item of the manifest with the given name (a dict keeps one value per key)
ManifestItem(manifest, c) ==
    manifest[CHOOSE i \in 1..Len(manifest) :
                manifest[i].name = c /\ \A j \in (i + 1)..Len(manifest) : manifest[j].name # c]

\* verify_versions
verify_versions(manifest, component_map, allow_zero_replicas) ==
    [errors |-> verify_errors(manifest, component_map, allow_zero_replicas),
     components |-> [c \in {manifest[i].name : i \in 1..Len(manifest)} |->
                        verify_component(ManifestItem(manifest, c), component_map,
                                         allow_zero_replicas).comp]]

\* ------------------------------------------------------------------------
\* stability_audit.py
\* ------------------------------------------------------------------------

\* `x or 0` for an optional integer
OrZero(x) == IF x = None THEN 0 ELSE x[1]

\* flatten a list of lists (errors.extend in a loop)
RECURSIVE Concat(_)
Concat(ls) == IF ls = <<>> THEN <<>> ELSE ls[1] \o Concat(Tail(ls))

ControllerKinds == {"Deployment", "StatefulSet", "DaemonSet"}

\* check_controller_convergence: observedGeneration >= generation
check_controller_convergence(workload) ==
    IF workload.status = None THEN FALSE
    ELSE IF workload.status[1].observed_generation = None THEN FALSE
    ELSE workload.status[1].observed_generation[1] >= workload.generation

\* labels.get(<kind-specific label>) inside check_revision_consistency
actual_hash(pod, workload_type) ==
    IF workload_type = "Deployment" THEN pod.labels.pod_template_hash
    ELSE IF workload_type \in {"StatefulSet", "DaemonSet"} THEN pod.labels.controller_revision_hash
    ELSE None

\* check_revision_consistency passing over pods that lack the label
check_revision_consistency_ignoring_unlabelled(pods, expected_revision_hash, workload_type) ==
    IF expected_revision_hash = "" THEN <<[msg |-> "Expected revision hash is missing"]>>
    ELSE LET bad(pod) == /\ workload_type \in ControllerKinds
                         /\ actual_hash(pod, workload_type) # None
                         /\ actual_hash(pod, workload_type) # Some(expected_revision_hash)
             items == SelectSeq(pods, bad)
         IN  [i \in 1..Len(items) |->
                [msg |-> "Pod has hash, expected", pod |-> items[i].name,
                 actual |-> actual_hash(items[i], workload_type),
                 expected |-> expected_revision_hash]]

\* check_revision_consistency
check_revision_consistency(pods, expected_revision_hash, workload_type) ==
    IF expected_revision_hash = "" THEN <<[msg |-> "Expected revision hash is missing"]>>
    ELSE LET bad(pod) == /\ workload_type \in ControllerKinds
                         /\ actual_hash(pod, workload_type) # Some(expected_revision_hash)
             items == SelectSeq(pods, bad)
         IN  [i \in 1..Len(items) |->
                [msg |-> "Pod has hash, expected", pod |-> items[i].name,
                 actual |-> actual_hash(items[i], workload_type),
                 expected |-> expected_revision_hash]]

BadWaitingReasons == {"ImagePullBackOff", "ErrImagePull", "CrashLoopBackOff"}

\* container_status_errors tolerating a restart count equal to the threshold
container_status_errors_above_threshold(pod, st, restart_threshold) ==
    (IF st.restart_count > restart_threshold
     THEN <<[msg |-> "Container has restarts", pod |-> pod.name, count |-> st.restart_count]>>
     ELSE <<>>)
    \o
    (IF st.waiting # None /\ st.waiting[1] \in BadWaitingReasons
     THEN <<[msg |-> "Container is in", pod |-> pod.name, reason |-> st.waiting[1]]>>
     ELSE <<>>)

\* the errors one container status contributes in check_pod_health
container_status_errors(pod, st, restart_threshold) ==
    (IF st.restart_count >= restart_threshold
     THEN <<[msg |-> "Container has restarts", pod |-> pod.name, count |-> st.restart_count]>>
     ELSE <<>>)
    \o
    (IF st.waiting # None /\ st.waiting[1] \in BadWaitingReasons
     THEN <<[msg |-> "Container is in", pod |-> pod.name, reason |-> st.waiting[1]]>>
     ELSE <<>>)

\* check_pod_health; now is datetime.now(timezone.utc) in seconds
check_pod_health(pod, restart_threshold, min_uptime_sec, now) ==
    IF pod.deletion_timestamp # None
    THEN <<[msg |-> "Pod is terminating", pod |-> pod.name]>>
    ELSE
    LET readys == {i \in 1..Len(pod.conditions) : pod.conditions[i].type = "Ready"}
        ready_cond == IF readys = {} THEN None
                      ELSE Some(pod.conditions[CHOOSE i \in readys : \A j \in readys : i <= j])
    IN  (IF ready_cond = None \/ ready_cond[1].status # "True"
         THEN <<[msg |-> "Pod is not Ready", pod |-> pod.name]>> ELSE <<>>)
        \o
        Concat([i \in 1..Len(pod.container_statuses) |->
                    container_status_errors(pod, pod.container_statuses[i], restart_threshold)])
        \o
        (IF min_uptime_sec > 0
         THEN IF pod.start_time # None
              THEN IF now - pod.start_time[1] < min_uptime_sec
                   THEN <<[msg |-> "Pod uptime below minimum", pod |-> pod.name,
                           uptime |-> now - pod.start_time[1]]>>
                   ELSE <<>>
              ELSE <<[msg |-> "Pod has not started yet", pod |-> pod.name]>>
         ELSE <<>>)

\* verify_daemon_set_scheduling
verify_daemon_set_scheduling(daemon_set) ==
    IF daemon_set.status = None THEN <<[msg |-> "DaemonSet status is missing"]>>
    ELSE LET st == daemon_set.status[1]
             desired == OrZero(st.desired_number_scheduled)
             available == OrZero(st.number_available)
             updated == OrZero(st.updated_number_scheduled)
         IN  (IF available < desired
              THEN <<[msg |-> "DaemonSet available pods < desired",
                      available |-> available, desired |-> desired]>> ELSE <<>>)
             \o
             (IF updated < desired
              THEN <<[msg |-> "DaemonSet updated pods < desired",
                      updated |-> updated, desired |-> desired]>> ELSE <<>>)

DEFAULT_BACKOFF_LIMIT == 6

\* verify_job_status
verify_job_status(job) ==
    IF job.status = None THEN <<[msg |-> "Job status is missing"]>>
    ELSE LET st == job.status[1]
             failed == OrZero(st.failed)
             backoff_limit == IF job.backoff_limit # None THEN job.backoff_limit[1]
                              ELSE DEFAULT_BACKOFF_LIMIT
         IN  (IF OrZero(st.succeeded) < 1
              THEN <<[msg |-> "Job has not succeeded yet"]>> ELSE <<>>)
             \o
             (IF failed > backoff_limit
              THEN <<[msg |-> "Job failed count > backoffLimit",
                      failed |-> failed, backoff_limit |-> backoff_limit]>> ELSE <<>>)

\* _get_workload_object: read is the outcome of the API read (None when it
\* raised); a type outside the five kinds falls through to `return None`
get_workload_object(read, workload_type) ==
    IF workload_type \in WorkloadType THEN read ELSE None

\* audit_workload step 1 (convergence): the flag and the errors it adds
audit_convergence(w_type, obj) ==
    IF w_type \in ControllerKinds
    THEN LET converged == check_controller_convergence(obj)
         IN  [flag |-> converged,
              errors |-> IF ~converged THEN <<[msg |-> "Workload not converged"]>> ELSE <<>>]
    ELSE [flag |-> TRUE, errors |-> <<>>]

\* audit_workload step 2 (revision consistency)
audit_revision(w_type, pods, latest_revision) ==
    IF w_type \in ControllerKinds
    THEN IF latest_revision # None /\ latest_revision[1].hash # ""
         THEN LET rev_errors == check_revision_consistency(pods, latest_revision[1].hash, w_type)
              IN  IF rev_errors = <<>> THEN [flag |-> TRUE, errors |-> <<>>]
                  ELSE [flag |-> FALSE, errors |-> rev_errors]
         ELSE [flag |-> FALSE, errors |-> <<[msg |-> "Could not determine latest revision hash"]>>]
    ELSE [flag |-> TRUE, errors |-> <<>>]

\* audit_workload step 3 (pod health)
audit_pod_health(pods, restart_threshold, min_uptime_sec, now) ==
    LET pod_errors == Concat([i \in 1..Len(pods) |->
                                check_pod_health(pods[i], restart_threshold, min_uptime_sec, now)])
    IN  IF pod_errors = <<>> THEN [flag |-> TRUE, errors |-> <<>>]
        ELSE [flag |-> FALSE, errors |-> pod_errors]

\* audit_workload step 4 (DaemonSet scheduling)
audit_scheduling(w_type, obj) ==
    IF w_type = "DaemonSet"
    THEN LET ds_errors == verify_daemon_set_scheduling(obj)
         IN  IF ds_errors = <<>> THEN [flag |-> TRUE, errors |-> <<>>]
             ELSE [flag |-> FALSE, errors |-> ds_errors]
    ELSE [flag |-> TRUE, errors |-> <<>>]

\* step 5 without its else branch: job_complete stays False for other kinds
audit_job_without_else(w_type, obj) ==
    IF w_type = "Job"
    THEN LET job_errors == verify_job_status(obj)
         IN  IF job_errors = <<>> THEN [flag |-> TRUE, errors |-> <<>>]
             ELSE [flag |-> FALSE, errors |-> job_errors]
    ELSE [flag |-> FALSE, errors |-> <<>>]

\* audit_workload step 5 (Job status)
audit_job(w_type, obj) ==
    IF w_type = "Job"
    THEN LET job_errors == verify_job_status(obj)
         IN  IF job_errors = <<>> THEN [flag |-> TRUE, errors |-> <<>>]
             ELSE [flag |-> FALSE, errors |-> job_errors]
    ELSE [flag |-> TRUE, errors |-> <<>>]

\* audit_workload
audit_workload(workload_info, read, restart_threshold, min_uptime_sec, now) ==
    LET w_type == workload_info.type
        workload_obj == get_workload_object(read, w_type)
    IN
    IF workload_info.name = <<>> \/ workload_info.namespace = "" \/ w_type = ""
    THEN [DefaultAuditResult EXCEPT !.errors = <<[msg |-> "Invalid workload info provided"]>>]
    ELSE IF workload_obj = None
    THEN [DefaultAuditResult EXCEPT
            !.errors = <<[msg |-> "Could not fetch workload object", name |-> workload_info.name]>>]
    ELSE
    LET obj == workload_obj[1]
        s1 == audit_convergence(w_type, obj)
        s2 == audit_revision(w_type, workload_info.pods, workload_info.latest_revision)
        s3 == audit_pod_health(workload_info.pods, restart_threshold, min_uptime_sec, now)
        s4 == audit_scheduling(w_type, obj)
        s5 == audit_job(w_type, obj)
    IN  [converged |-> s1.flag,
         revision_consistent |-> s2.flag,
         pods_healthy |-> s3.flag,
         scheduling_complete |-> s4.flag,
         job_complete |-> s5.flag,
         errors |-> s1.errors \o s2.errors \o s3.errors \o s4.errors \o s5.errors]

\* ------------------------------------------------------------------------
\* workload_discovery.py
\*
\* A cluster workload cw is what the API holds for one workload:
\*   name, type       metadata.name and the kind it was listed under
\*   template         Some(pod template spec), None when it cannot be extracted
\*   revision         outcome of the revision method / DaemonSet label read:
\*                    Some(RevisionInfo), None when it raised or found no hash
\*   pods_outcome     outcome of the pod-listing method: [kind |-> "ok", pods],
\*                    [kind |-> "controller_exception"] or [kind |-> "exception"]
\*   read             outcome of the auditor's later read of the object
\* ------------------------------------------------------------------------

FetchOrder == <<"Deployment", "StatefulSet", "DaemonSet", "Job", "CronJob">>

\* the kinds in _fetch_methods, given the include flags
fetch_kinds(include) ==
    LET enabled(k) == \/ k = "Deployment"
                      \/ k = "StatefulSet" /\ include.statefulsets
                      \/ k = "DaemonSet" /\ include.daemonsets
                      \/ k \in {"Job", "CronJob"} /\ include.jobs
    IN  SelectSeq(FetchOrder, enabled)

\* the kinds in _pod_methods (CronJob has no pod-listing method)
has_pod_method(k, include) ==
    \/ k = "Deployment"
    \/ k = "StatefulSet" /\ include.statefulsets
    \/ k = "DaemonSet" /\ include.daemonsets
    \/ k = "Job" /\ include.jobs

\* the kinds with a latest_revision source: _revision_methods and the
\* DaemonSet special case
has_revision_source(k, include) ==
    \/ k = "Deployment"
    \/ k = "StatefulSet" /\ include.statefulsets
    \/ k = "DaemonSet"

\* fetch_all_workloads: the fetched workloads of the enabled kinds, kind by kind
fetch_all_workloads(cluster, include) ==
    LET kinds == fetch_kinds(include)
    IN  Concat([i \in 1..Len(kinds) |->
                    LET ofKind(cw) == cw.type = kinds[i] IN SelectSeq(cluster, ofKind)])

\* inspect_workload re-raising every pod listing error, controller exceptions
\* included
inspect_workload_raising_on_any_error(cw, namespace, include) ==
    IF has_pod_method(cw.type, include) /\ cw.pods_outcome.kind # "ok"
    THEN [ok |-> FALSE]
    ELSE [ok |-> TRUE,
          result |-> [name |-> cw.name, type |-> cw.type, namespace |-> namespace,
                      latest_revision |-> IF has_revision_source(cw.type, include)
                                          THEN cw.revision ELSE None,
                      pods |-> cw.pods_outcome.pods,
                      pod_spec |-> cw.template,
                      error |-> None]]

\* inspect_workload: [ok |-> TRUE, result] or [ok |-> FALSE] when it raises
inspect_workload(cw, namespace, include) ==
    IF has_pod_method(cw.type, include) /\ cw.pods_outcome.kind = "exception"
    THEN [ok |-> FALSE]
    ELSE [ok |-> TRUE,
          result |-> [name |-> cw.name, type |-> cw.type, namespace |-> namespace,
                      latest_revision |-> IF has_revision_source(cw.type, include)
                                          THEN cw.revision ELSE None,
                      pods |-> IF has_pod_method(cw.type, include) /\ cw.pods_outcome.kind = "ok"
                               THEN cw.pods_outcome.pods ELSE <<>>,
                      pod_spec |-> cw.template,
                      error |-> None]]

\* the partial result appended when a task's future raised
failed_inspection(cw, namespace) ==
    [name |-> cw.name, type |-> cw.type, namespace |-> namespace,
     latest_revision |-> None, pods |-> <<>>, pod_spec |-> None,
     error |-> Some("inspection failed")]

\* the name filter of discover_cluster_state
name_skipped(patterns, workload_name) ==
    \E i \in 1..Len(patterns) : IsSubstr(patterns[i], workload_name)

\* the result the completion loop appends for one task
task_result(cw, namespace, include) ==
    LET r == inspect_workload(cw, namespace, include)
    IN  IF r.ok THEN r.result ELSE failed_inspection(cw, namespace)

\* discover_cluster_state, with the tasks completing in the order `order`
\* (a permutation of 1..number of tasks): (inspection_results, skipped names)
discover_cluster_state(cluster, namespace, skip_patterns, include, order) ==
    LET all_workloads == fetch_all_workloads(cluster, include)
        skipped(cw) == name_skipped(skip_patterns, cw.name)
        kept(cw) == ~name_skipped(skip_patterns, cw.name)
        tasks == SelectSeq(all_workloads, kept)
        skippedWs == SelectSeq(all_workloads, skipped)
    IN  [results |-> [i \in 1..Len(tasks) |-> task_result(tasks[order[i]], namespace, include)],
         skipped |-> [i \in 1..Len(skippedWs) |-> skippedWs[i].name]]

\* the number of inspection tasks discover_cluster_state submits
task_count(cluster, skip_patterns, include) ==
    LET kept(cw) == ~name_skipped(skip_patterns, cw.name)
    IN  Len(SelectSeq(fetch_all_workloads(cluster, include), kept))

\* the completion orders of n tasks
CompletionOrders(n) == {f \in [1..n -> 1..n] : \A i, j \in 1..n : f[i] = f[j] => i = j}

\* ------------------------------------------------------------------------
\* cli.py: stability audit orchestration
\* ------------------------------------------------------------------------

\* w_key = f"{type}/{name}"
WKey(type, name) == <<type, name>>

\* discovered_map: the last discovered item under each key
discovered_map_of(discovered_items) ==
    [k \in {WKey(discovered_items[i].type, discovered_items[i].name) :
                i \in 1..Len(discovered_items)} |->
        discovered_items[CHOOSE i \in 1..Len(discovered_items) :
            /\ WKey(discovered_items[i].type, discovered_items[i].name) = k
            /\ \A j \in (i + 1)..Len(discovered_items) :
                  WKey(discovered_items[j].type, discovered_items[j].name) # k]]

\* all entries of the component map, bucket by bucket
map_entries(component_map) ==
    UNION {{component_map[c][i] : i \in 1..Len(component_map[c])} : c \in DOMAIN component_map}

\* first loop of _perform_stability_audit: the audit and skip sets built from
\* the component map entries
sets_from_map(component_map, skip_containers) ==
    [audit |-> {WKey(e.workload_type, e.workload_name) :
                    e \in {x \in map_entries(component_map) :
                             ~should_skip(skip_containers, x.container_name, x.workload_name)}},
     skip  |-> {WKey(e.workload_type, e.workload_name) :
                    e \in {x \in map_entries(component_map) :
                             should_skip(skip_containers, x.container_name, x.workload_name)}}]

\* the second loop adding every discovered item that is not skipped, required
\* or not
RECURSIVE add_required_every_item(_, _, _, _)
add_required_every_item(sets, items, required_workloads, skip_containers) ==
    IF items = <<>> THEN sets
    ELSE add_required_every_item(
            IF should_skip(skip_containers, <<>>, items[1].name)
            THEN [sets EXCEPT !.skip = @ \cup {WKey(items[1].type, items[1].name)}]
            ELSE [sets EXCEPT !.audit = @ \cup {WKey(items[1].type, items[1].name)}],
            Tail(items), required_workloads, skip_containers)

\* second loop of _perform_stability_audit: required workloads among the
\* discovered items, item by item
RECURSIVE add_required(_, _, _, _)
add_required(sets, items, required_workloads, skip_containers) ==
    IF items = <<>> THEN sets
    ELSE LET item == items[1]
             w_key == WKey(item.type, item.name)
             next ==
                IF should_skip(skip_containers, <<>>, item.name)
                THEN [sets EXCEPT !.skip = @ \cup {w_key}]
                ELSE IF /\ \E i \in 1..Len(required_workloads) :
                                IsSubstr(required_workloads[i], item.name)
                        /\ w_key \notin sets.skip
                     THEN [sets EXCEPT !.audit = @ \cup {w_key}]
                     ELSE sets
         IN  add_required(next, Tail(items), required_workloads, skip_containers)

\* workloads_to_audit of _perform_stability_audit
workloads_to_audit(component_map, discovered_items, required_workloads, skip_containers) ==
    add_required(sets_from_map(component_map, skip_containers), discovered_items,
                 required_workloads, skip_containers).audit

\* _perform_stability_audit: reads[k] is the outcome of the auditor's read of
\* workload k; returns (stability_results, all_stable)
perform_stability_audit(component_map, discovered_items, discovered_map, required_workloads, skip_containers, restart_threshold, min_uptime, reads, now) ==
    LET keys == workloads_to_audit(component_map, discovered_items, required_workloads,
                                   skip_containers) \cap DOMAIN discovered_map
        results == [k \in keys |->
                      audit_workload(discovered_map[k], reads[k], restart_threshold,
                                     min_uptime, now)]
    IN  [stability_results |-> results,
         all_stable |-> \A k \in keys : results[k].errors = <<>>]

\* ------------------------------------------------------------------------
\* cli.py: report generation
\* ------------------------------------------------------------------------

\* the WorkloadReport built for one verification entry
workload_report(w_entry, stability_results) ==
    LET w_key == WKey(w_entry.type, w_entry.workload)
    IN  [name |-> w_entry.workload, type |-> w_entry.type, container |-> w_entry.container,
         version_error |-> w_entry.error,
         stability |-> IF w_key \in DOMAIN stability_results
                       THEN Some(stability_results[w_key]) ELSE None]

\* has_stability_errors that finds none
has_stability_errors_never(w_entry, stability_results) == FALSE

\* bool(stability_dict.get("errors"))
has_stability_errors(w_entry, stability_results) ==
    LET w_key == WKey(w_entry.type, w_entry.workload)
    IN  w_key \in DOMAIN stability_results /\ stability_results[w_key].errors # <<>>

\* the keys of details that hold the two lists of messages (lines 514-517)
MISSING_COMPONENTS_KEY ==
    <<"_", "m", "i", "s", "s", "i", "n", "g", "_", "c", "o", "m", "p", "o", "n", "e", "n", "t", "s">>

MISSING_WORKLOADS_KEY ==
    <<"_", "m", "i", "s", "s", "i", "n", "g", "_", "w", "o", "r", "k", "l", "o", "a", "d", "s">>

\* lines 514-517: details[key] = messages when there are any, replacing what
\* the key held
with_messages(details, key, messages) ==
    IF messages # <<>>
    THEN [k \in DOMAIN details \cup {key} |-> IF k = key THEN messages ELSE details[k]]
    ELSE details

\* lines 473-512: the ComponentReport of every verified component
component_reports(comps, stability_results) ==
    LET listed(w) == /\ w.status # "SKIPPED"
                     /\ (w.status = "FAIL" \/ has_stability_errors(w, stability_results))
    IN  [c \in DOMAIN comps |->
            [status |-> comps[c].status,
             errors |-> comps[c].errors,
             workloads |-> [i \in 1..Len(SelectSeq(comps[c].workloads, listed)) |->
                              workload_report(SelectSeq(comps[c].workloads, listed)[i],
                                              stability_results)]]]

\* generate_report
generate_report(overall_status, verification_results, stability_results, missing_components, missing_workloads, namespace, skipped_workload_names) ==
    LET comps == verification_results.components
        notSkipped(w) == w.status # "SKIPPED"
        isSkipped(w) == w.status = "SKIPPED"
        unstable(w) == w.status # "SKIPPED" /\ has_stability_errors(w, stability_results)
        Sum(f) == LET RECURSIVE S(_)
                      S(D) == IF D = {} THEN 0
                              ELSE LET c == CHOOSE c \in D : TRUE IN f[c] + S(D \ {c})
                  IN  S(DOMAIN f)
    IN  [namespace |-> namespace,
         status |-> overall_status,
         summary |->
            [total_components |-> Cardinality(DOMAIN comps),
             missing_components |-> Len(missing_components),
             missing_workloads |-> Len(missing_workloads),
             failed_components |-> Cardinality({c \in DOMAIN comps : comps[c].status = "FAIL"}),
             unstable_workloads |->
                Sum([c \in DOMAIN comps |-> Len(SelectSeq(comps[c].workloads, unstable))]),
             skipped_containers |->
                Len(skipped_workload_names)
                + Sum([c \in DOMAIN comps |-> Len(SelectSeq(comps[c].workloads, isSkipped))])],
         details |->
            with_messages(with_messages(component_reports(comps, stability_results),
                                        MISSING_COMPONENTS_KEY, missing_components),
                          MISSING_WORKLOADS_KEY, missing_workloads)]

\* ------------------------------------------------------------------------
\* Inputs of the driver: command-line arguments and observed cluster states
\* ------------------------------------------------------------------------

\* largest --timeout explored
MaxTimeout == 15

\* longest time (seconds) initialisation or one discovery pass may take
MaxDelay == 1

ANCHOR == <<"a", "p", "p">>

REGISTRY == <<"r", ".", "i", "o">>

BE == <<"b", "e">>

FE == <<"f", "e">>

V1 == <<"v", "1">>

V2 == <<"v", "2">>

Versions == {V1, V2}

\* registry/org-anchor/component:version
Image(component, version) == REGISTRY \o <<"/">> \o ANCHOR \o <<"/">> \o component \o <<":">> \o version

NoLabels == [pod_template_hash |-> None, controller_revision_hash |-> None]

\* a Ready pod of a Deployment at revision hash h running image
ReadyPod(name, image, h, restarts) ==
    [name |-> name, phase |-> "Running",
     labels |-> [NoLabels EXCEPT !.pod_template_hash = Some(h)],
     deletion_timestamp |-> None,
     conditions |-> <<[type |-> "Ready", status |-> "True"]>>,
     container_statuses |-> <<[name |-> "main", restart_count |-> restarts, waiting |-> None]>>,
     start_time |-> Some(0),
     init_containers |-> <<>>,
     containers |-> <<image>>]

NoStatus ==
    [observed_generation |-> None, desired_number_scheduled |-> None, number_available |-> None,
     updated_number_scheduled |-> None, succeeded |-> None, failed |-> None]

\* a controller object whose status reports observed generation og
ControllerObject(generation, og) ==
    [generation |-> generation,
     status |-> Some([NoStatus EXCEPT !.observed_generation = Some(og)]),
     backoff_limit |-> None]

PodSpec(image) == [init_containers |-> <<>>, containers |-> <<image>>]

\* the states a Deployment `name` carrying `component` is observed in: scaled
\* to zero, one healthy pod (either version), one pod at the restart threshold,
\* or its pod listing failing
DeploymentStates(name, component) ==
    LET base(v, outcome) ==
            [name |-> name, type |-> "Deployment",
             template |-> Some(PodSpec(Image(component, v))),
             revision |-> Some([hash |-> "h1"]),
             pods_outcome |-> outcome,
             read |-> Some(ControllerObject(3, 3))]
    IN  {base(v, [kind |-> "ok", pods |-> <<>>]) : v \in Versions}
        \cup {base(v, [kind |-> "ok",
                       pods |-> <<ReadyPod("p1", Image(component, v), "h1", 0)>>]) : v \in Versions}
        \cup {base(V1, [kind |-> "ok",
                        pods |-> <<ReadyPod("p1", Image(component, V1), "h1",
                                            DEFAULT_RESTART_THRESHOLD)>>]),
              base(V1, [kind |-> "exception"])}

BE_NAME == <<"b", "e", "-", "d">>

FE_NAME == <<"f", "e", "-", "d">>

\* the frontend Deployment is observed healthy or with a restarting pod
FrontendStates ==
    {cw \in DeploymentStates(FE_NAME, FE) :
        cw.pods_outcome.kind = "ok" /\ cw.pods_outcome.pods # <<>>
        /\ cw.pods_outcome.pods[1].containers = <<Image(FE, V1)>>}

\* the cluster states one discovery pass may observe
ClusterStates ==
    {<<>>}
    \cup {<<b>> : b \in DeploymentStates(BE_NAME, BE)}
    \cup {<<f>> : f \in FrontendStates}
    \cup {<<b, f>> : b \in DeploymentStates(BE_NAME, BE), f \in FrontendStates}

Timeouts == {0, RETRY_INTERVAL_SECONDS, MaxTimeout}

Manifests == {<<[name |-> BE, version |-> V1]>>,
              <<[name |-> BE, version |-> V1], [name |-> FE, version |-> V1]>>}

NoInclude == [statefulsets |-> FALSE, daemonsets |-> FALSE, jobs |-> FALSE]

\* the argument sets explored by the driver
ArgSets ==
    [dry_run : BOOLEAN,
     timeout : Timeouts,
     allow_zero_replicas : BOOLEAN,
     manifest : Manifests,
     required_workloads : {<<>>, <<FE>>},
     skip_containers : {<<>>, <<FE>>},
     anchor : {ANCHOR},
     namespace : {"default"},
     restart_threshold : {DEFAULT_RESTART_THRESHOLD},
     min_uptime : {0},
     include : {NoInclude}]

\* ------------------------------------------------------------------------
\* cli.py: run_verification as a state machine
\* ------------------------------------------------------------------------

VARIABLES
    args,                   \* parsed command-line arguments
    pc,                     \* position in run_verification
    now,                    \* time.time()
    start_time,
    overall_status,
    verification_results,
    stability_results,
    missing_components,
    missing_workloads,
    skipped_workload_names,
    iteration,              \* what the latest pass through the loop body computed,
                            \* and the values the latest pass that made its checks
                            \* assigned (last_checked)
    report,                 \* the report printed on stdout (None: nothing printed)
    exit_value,             \* return value of run_verification (None while running)
    discover_calls,         \* number of calls of discover_cluster_state
    sleeps,                 \* number of calls of time.sleep
    call,                   \* a pure function under test and its arguments
    result                  \* the value it returned (None before the call)

driver_vars == <<args, pc, now, start_time, overall_status, verification_results,
                 stability_results, missing_components, missing_workloads,
                 skipped_workload_names, iteration, report, exit_value, discover_calls, sleeps>>

unit_vars == <<call, result>>

vars == <<driver_vars, unit_vars>>

results_vars == <<verification_results, stability_results, missing_components,
                  missing_workloads, skipped_workload_names>>

NoIteration == [outcome |-> "none", last_checked |-> None]

NoCall == [fn |-> "none"]

\* run_verification has returned: the return statement reached
Returned == {"init_failed", "discovery_failed", "report_failed", "returned"}

\* the number of sleeps no run within MaxTimeout can exceed: the pass after
\* the k-th sleep starts at least k * RETRY_INTERVAL_SECONDS after the start
MaxSleeps == MaxTimeout \div RETRY_INTERVAL_SECONDS + 2

DriverInit ==
    /\ pc = "start"
    /\ now = 0
    /\ start_time = 0
    /\ overall_status = "PASS"
    /\ verification_results = EmptyVerificationResults
    /\ stability_results = <<>>
    /\ missing_components = <<>>
    /\ missing_workloads = <<>>
    /\ skipped_workload_names = <<>>
    /\ iteration = NoIteration
    /\ report = None
    /\ exit_value = None
    /\ discover_calls = 0
    /\ sleeps = 0

Init ==
    /\ args \in ArgSets
    /\ DriverInit
    /\ call = NoCall
    /\ result = None

\* lines 724-747: load the manifest, build controller, discovery and auditor
Initialize ==
    /\ pc = "start"
    /\ \E d \in 0..MaxDelay : now' = now + d
    /\ pc' = "head"
    /\ UNCHANGED <<args, start_time, overall_status, results_vars, iteration, report,
                   exit_value, discover_calls, sleeps, unit_vars>>

\* lines 748-750: initialisation raised
InitializeFails ==
    /\ pc = "start"
    /\ pc' = "init_failed"
    /\ exit_value' = Some(1)
    /\ UNCHANGED <<args, now, start_time, overall_status, results_vars, iteration, report,
                   discover_calls, sleeps, unit_vars>>

\* the timeout test with >= for >
timed_out_at_equal(t, start, timeout) == t - start >= timeout

\* the timeout test with the subtraction reversed
timed_out_reversed(t, start, timeout) == start - t > timeout

\* line 762: the global timeout has elapsed
timed_out(t, start, timeout) == t - start > timeout

\* lines 762-765: the timeout check at the head of the loop
CheckTimeout ==
    /\ pc = "head"
    /\ IF timed_out(now, start_time, args.timeout)
       THEN overall_status' = "TIMEOUT" /\ pc' = "report"
       ELSE overall_status' = overall_status /\ pc' = "discover"
    /\ UNCHANGED <<args, now, start_time, results_vars, iteration, report, exit_value,
                   discover_calls, sleeps, unit_vars>>

\* the except branch returning 1 whatever the mode
on_discovery_failure_returns(dry_run) == "discovery_failed"

\* the except branch retrying whatever the mode
on_discovery_failure_retries(dry_run) == "sleep"

\* lines 780-785: where the except branch goes
on_discovery_failure(dry_run) == IF dry_run THEN "discovery_failed" ELSE "sleep"

\* the except branch with the results of the earlier passes dropped
DiscoveryFails_forgetting_results ==
    /\ pc = "discover"
    /\ discover_calls' = discover_calls + 1
    /\ \E d \in 0..MaxDelay : now' = now + d
    /\ iteration' = [outcome |-> "discovery failed", last_checked |-> iteration.last_checked]
    /\ pc' = on_discovery_failure(args.dry_run)
    /\ exit_value' = IF pc' = "discovery_failed" THEN Some(1) ELSE exit_value
    /\ verification_results' = EmptyVerificationResults
    /\ stability_results' = <<>>
    /\ missing_components' = <<>>
    /\ missing_workloads' = <<>>
    /\ skipped_workload_names' = <<>>
    /\ UNCHANGED <<args, start_time, overall_status, report, sleeps, unit_vars>>

\* lines 768-785: discover_cluster_state raised, before anything was assigned
\* (construct_component_map, inside the same try, catches the parse errors of
\* its containers)
DiscoveryFails ==
    /\ pc = "discover"
    /\ discover_calls' = discover_calls + 1
    /\ \E d \in 0..MaxDelay : now' = now + d
    /\ iteration' = [outcome |-> "discovery failed", last_checked |-> iteration.last_checked]
    /\ pc' = on_discovery_failure(args.dry_run)
    /\ exit_value' = IF pc' = "discovery_failed" THEN Some(1) ELSE exit_value
    /\ UNCHANGED <<args, start_time, overall_status, results_vars, report, sleeps, unit_vars>>

\* lines 787-807: the checks of one pass, on what discovery returned
loop_checks(d, discovered_map, component_map, reads) ==
    LET sa == perform_stability_audit(component_map, d.results, discovered_map,
                                      args.required_workloads, args.skip_containers,
                                      args.restart_threshold, args.min_uptime, reads, now)
    IN  [skipped |-> d.skipped, component_map |-> component_map,
         missing_components |-> validate_manifest(args.manifest, component_map),
         missing_workloads |-> verify_required_workloads(args.required_workloads, d.results),
         verification_results |-> verify_versions(args.manifest, component_map,
                                                  args.allow_zero_replicas),
         stability_results |-> sa.stability_results,
         all_stable |-> sa.all_stable]

\* lines 773-779: discovered_map and component_map built from the discovered items
loop_maps(d, reads) ==
    loop_checks(d, discovered_map_of(d.results),
                construct_component_map(d.results, args.manifest, args.anchor,
                                        args.skip_containers),
                reads)

\* what the auditor's read of each workload of `cluster` returns
reads_of(cluster) ==
    [k \in {WKey(cluster[i].type, cluster[i].name) : i \in 1..Len(cluster)} |->
        cluster[CHOOSE i \in 1..Len(cluster) : WKey(cluster[i].type, cluster[i].name) = k].read]

\* the loop body after a successful discovery (lines 769-807), on the cluster
\* state `cluster` with the inspection tasks completing in order `order`
LoopBody(cluster, order) ==
    loop_maps(discover_cluster_state(cluster, args.namespace, args.skip_containers,
                                     args.include, order),
              reads_of(cluster))

\* line 809
has_errors_of(vr, mc, mw) == vr.errors # <<>> \/ mc # <<>> \/ mw # <<>>

\* the decision with all_stable left out of both tests
loop_decision_ignores_stability(dry_run, has_errors, all_stable, status) ==
    IF dry_run
    THEN [status |-> IF has_errors THEN "FAIL" ELSE status, pc |-> "report"]
    ELSE IF ~has_errors
    THEN [status |-> "PASS", pc |-> "report"]
    ELSE [status |-> status, pc |-> "sleep"]

\* the decision with the dry-run break missing after a failed pass
loop_decision_dry_run_continues(dry_run, has_errors, all_stable, status) ==
    IF ~has_errors /\ all_stable
    THEN [status |-> "PASS", pc |-> "report"]
    ELSE [status |-> IF dry_run THEN "FAIL" ELSE status, pc |-> "sleep"]

\* lines 811-822: the status and the next position after the checks
loop_decision(dry_run, has_errors, all_stable, status) ==
    IF dry_run
    THEN [status |-> IF has_errors \/ ~all_stable THEN "FAIL" ELSE status, pc |-> "report"]
    ELSE IF ~has_errors /\ all_stable
    THEN [status |-> "PASS", pc |-> "report"]
    ELSE [status |-> status, pc |-> "sleep"]

\* lines 809-822: the results of the pass are kept and the loop is left or not
conclude_pass(b, has_errors) ==
    /\ skipped_workload_names' = b.skipped
    /\ missing_components' = b.missing_components
    /\ missing_workloads' = b.missing_workloads
    /\ verification_results' = b.verification_results
    /\ stability_results' = b.stability_results
    /\ iteration' = [outcome |-> "checked", has_errors |-> has_errors,
                     all_stable |-> b.all_stable, component_map |-> b.component_map,
                     last_checked |-> Some(b)]
    /\ overall_status' = loop_decision(args.dry_run, has_errors, b.all_stable,
                                       overall_status).status
    /\ pc' = loop_decision(args.dry_run, has_errors, b.all_stable, overall_status).pc

\* line 809 on the results of a pass
checked_pass(b) ==
    conclude_pass(b, has_errors_of(b.verification_results, b.missing_components,
                                   b.missing_workloads))

\* lines 768-822: one pass of the loop with a successful discovery
Iterate ==
    /\ pc = "discover"
    /\ discover_calls' = discover_calls + 1
    /\ \E d \in 0..MaxDelay : now' = now + d
    /\ \E cluster \in ClusterStates :
         \E order \in CompletionOrders(task_count(cluster, args.skip_containers, args.include)) :
            checked_pass(LoopBody(cluster, order))
    /\ UNCHANGED <<args, start_time, report, exit_value, sleeps, unit_vars>>

\* lines 784 and 822: time.sleep(RETRY_INTERVAL_SECONDS), then the next pass
Sleep ==
    /\ pc = "sleep"
    /\ sleeps < MaxSleeps
    /\ now' = now + RETRY_INTERVAL_SECONDS
    /\ sleeps' = sleeps + 1
    /\ pc' = "head"
    /\ UNCHANGED <<args, start_time, overall_status, results_vars, iteration, report,
                   exit_value, discover_calls, unit_vars>>

\* lines 824-835 and 840: the report is generated and printed
EmitReport ==
    /\ pc = "report"
    /\ report' = Some(generate_report(overall_status, verification_results, stability_results,
                                      missing_components, missing_workloads, args.namespace,
                                      skipped_workload_names))
    /\ exit_value' = Some(exit_code(overall_status))
    /\ pc' = "returned"
    /\ UNCHANGED <<args, now, start_time, overall_status, results_vars, iteration,
                   discover_calls, sleeps, unit_vars>>

\* lines 836-838: generating or printing the report raised
ReportFails ==
    /\ pc = "report"
    /\ exit_value' = Some(1)
    /\ pc' = "report_failed"
    /\ UNCHANGED <<args, now, start_time, overall_status, results_vars, iteration, report,
                   discover_calls, sleeps, unit_vars>>

Next ==
    \/ Initialize
    \/ InitializeFails
    \/ CheckTimeout
    \/ DiscoveryFails
    \/ Iterate
    \/ Sleep
    \/ EmitReport
    \/ ReportFails

Spec == Init /\ [][Next]_vars

\* each step of run_verification returns and the next one is taken
FairSpec == Spec /\ WF_vars(Next)

\* ------------------------------------------------------------------------
\* Single calls of audit_workload and _verify_component_entry
\* ------------------------------------------------------------------------

\* the driver is not running while one function is called on its own
Parked ==
    /\ args = [dry_run |-> TRUE, timeout |-> 0, allow_zero_replicas |-> FALSE,
               manifest |-> <<>>, required_workloads |-> <<>>, skip_containers |-> <<>>,
               anchor |-> ANCHOR, namespace |-> "default",
               restart_threshold |-> DEFAULT_RESTART_THRESHOLD, min_uptime |-> 0,
               include |-> NoInclude]
    /\ pc = "unit"
    /\ now = 0
    /\ start_time = 0
    /\ overall_status = "PASS"
    /\ verification_results = EmptyVerificationResults
    /\ stability_results = <<>>
    /\ missing_components = <<>>
    /\ missing_workloads = <<>>
    /\ skipped_workload_names = <<>>
    /\ iteration = NoIteration
    /\ report = None
    /\ exit_value = None
    /\ discover_calls = 0
    /\ sleeps = 0

\* pod labels: both hashes h, or one of them only, or none
AuditLabels ==
    {NoLabels,
     [pod_template_hash |-> Some("h1"), controller_revision_hash |-> Some("h1")],
     [pod_template_hash |-> Some("h2"), controller_revision_hash |-> Some("h2")],
     [pod_template_hash |-> Some("h1"), controller_revision_hash |-> None]}

CurrentLabels == [pod_template_hash |-> Some("h1"), controller_revision_hash |-> Some("h1")]

\* a pod as the audit reads it
AuditPod(labels, deletion_timestamp, conditions, restart_count, waiting, started) ==
    [name |-> "p1", phase |-> "Running", labels |-> labels,
     deletion_timestamp |-> deletion_timestamp, conditions |-> conditions,
     container_statuses |-> <<[name |-> "main", restart_count |-> restart_count,
                               waiting |-> waiting]>>,
     start_time |-> started, init_containers |-> <<>>,
     containers |-> <<Image(BE, V1)>>]

IsReady == <<[type |-> "Ready", status |-> "True"]>>

\* the pods audited: healthy under each labelling, terminating, not Ready
\* (no Ready condition, or Ready False), restarting (below and at the
\* threshold), waiting (for a bad and for a harmless reason), not started,
\* started two seconds before the audit
AuditPods ==
    {AuditPod(l, None, IsReady, 0, None, Some(0)) : l \in AuditLabels}
    \cup {AuditPod(CurrentLabels, Some(9), IsReady, 0, None, Some(0)),
          AuditPod(CurrentLabels, None, <<>>, 0, None, Some(0)),
          AuditPod(CurrentLabels, None,
                   <<[type |-> "PodScheduled", status |-> "True"],
                     [type |-> "Ready", status |-> "False"]>>, 0, None, Some(0)),
          AuditPod(CurrentLabels, None, IsReady, DEFAULT_RESTART_THRESHOLD - 1, None, Some(0)),
          AuditPod(CurrentLabels, None, IsReady, DEFAULT_RESTART_THRESHOLD, None, Some(0)),
          AuditPod(CurrentLabels, None, IsReady, 0, Some("CrashLoopBackOff"), Some(0)),
          AuditPod(CurrentLabels, None, IsReady, 0, Some("ContainerCreating"), Some(0)),
          AuditPod(CurrentLabels, None, IsReady, 0, None, None),
          AuditPod(CurrentLabels, None, IsReady, 0, None, Some(8))}

AuditPodLists ==
    {<<>>}
    \cup {<<p>> : p \in AuditPods}
    \cup {<<AuditPod(CurrentLabels, None, IsReady, 0, None, Some(0)),
            [AuditPod(CurrentLabels, Some(9), IsReady, 0, None, Some(0)) EXCEPT !.name = "p2"]>>}

\* a controller object read from the API
AuditObject(status, backoff_limit) ==
    [generation |-> 3, status |-> status, backoff_limit |-> backoff_limit]

ObservedStatuses ==
    {None} \cup {Some([NoStatus EXCEPT !.observed_generation = og]) :
                    og \in {None, Some(2), Some(3), Some(4)}}

DaemonSetStatuses ==
    {None} \cup {Some([NoStatus EXCEPT !.observed_generation = og,
                                       !.desired_number_scheduled = n[1],
                                       !.number_available = n[2],
                                       !.updated_number_scheduled = n[3]]) :
                    og \in {Some(2), Some(3)},
                    n \in {<<Some(1), Some(1), Some(1)>>, <<Some(1), None, Some(1)>>,
                           <<Some(2), Some(2), Some(1)>>, <<None, None, None>>}}

JobStatuses ==
    {None} \cup {Some([NoStatus EXCEPT !.succeeded = n[1], !.failed = n[2]]) :
                    n \in {<<Some(1), None>>, <<None, None>>,
                           <<Some(1), Some(DEFAULT_BACKOFF_LIMIT + 1)>>,
                           <<None, Some(DEFAULT_BACKOFF_LIMIT)>>}}

\* a workload type with what reading the object of that type returns (None:
\* the read raised); "" is a missing type and "ReplicaSet" a type outside
\* WorkloadType
TypedReads ==
    {<<t, None>> : t \in WorkloadType \cup {"", "ReplicaSet"}}
    \cup {<<t, Some(AuditObject(st, None))>> :
            t \in {"Deployment", "StatefulSet", "CronJob", "", "ReplicaSet"},
            st \in ObservedStatuses}
    \cup {<<"DaemonSet", Some(AuditObject(st, None))>> : st \in DaemonSetStatuses}
    \cup {<<"Job", Some(AuditObject(st, b))>> :
            st \in JobStatuses, b \in {None, Some(DEFAULT_BACKOFF_LIMIT + 1)}}

\* the calls of audit_workload explored
AuditCalls ==
    {[fn |-> "audit_workload",
      workload_info |-> [name |-> id[1], namespace |-> id[2], type |-> tr[1],
                         pods |-> pods, latest_revision |-> rev],
      read |-> tr[2],
      restart_threshold |-> DEFAULT_RESTART_THRESHOLD,
      min_uptime_sec |-> mu,
      now |-> 10] :
        id \in {<<BE_NAME, "default">>, <<<<>>, "default">>, <<BE_NAME, "">>},
        tr \in TypedReads,
        pods \in AuditPodLists,
        rev \in {None, Some([hash |-> ""]), Some([hash |-> "h1"])},
        mu \in {0, 5}}

InitAudit == call \in AuditCalls /\ result = None /\ Parked

\* StabilityAuditor.audit_workload is called and returns
AuditCall ==
    /\ call.fn = "audit_workload"
    /\ result = None
    /\ result' = Some(audit_workload(call.workload_info, call.read, call.restart_threshold,
                                     call.min_uptime_sec, call.now))
    /\ UNCHANGED <<driver_vars, call>>

NextAudit == AuditCall

SpecAudit == InitAudit /\ [][NextAudit]_vars

\* the component-map entries verified
VerifyEntries ==
    {[workload_name |-> BE_NAME, workload_type |-> "Deployment", container_name |-> BE,
      container_type |-> ct, actual_version |-> v, pods |-> pods] :
        ct \in {"app", "init"},
        v \in Versions \cup {LATEST},
        pods \in {<<>>, <<PodInfo(ReadyPod("p1", Image(BE, V1), "h1", 0))>>,
                  <<PodInfo(ReadyPod("p1", Image(BE, V1), "h1", 0)),
                    PodInfo(ReadyPod("p2", Image(BE, V2), "h1", 0))>>}}

\* the calls of _verify_component_entry explored
VerifyCalls ==
    {[fn |-> "_verify_component_entry", entry |-> e, expected_version |-> x,
      allow_zero_replicas |-> a] :
        e \in VerifyEntries, x \in Versions \cup {LATEST}, a \in BOOLEAN}

InitVerifyEntry == call \in VerifyCalls /\ result = None /\ Parked

\* _verify_component_entry is called and returns
VerifyEntryCall ==
    /\ call.fn = "_verify_component_entry"
    /\ result = None
    /\ result' = Some(verify_component_entry(call.entry, call.expected_version,
                                             call.allow_zero_replicas))
    /\ UNCHANGED <<driver_vars, call>>

NextVerifyEntry == VerifyEntryCall

SpecVerifyEntry == InitVerifyEntry /\ [][NextVerifyEntry]_vars

\* ------------------------------------------------------------------------
\* Single calls of verify_versions
\* ------------------------------------------------------------------------

\* the entries a component may own in the component map
VersionEntries(name, component) ==
    {[workload_name |-> name, workload_type |-> "Deployment", container_name |-> component,
      container_type |-> "app", actual_version |-> v, pods |-> pods] :
        v \in Versions,
        pods \in {<<>>, <<PodInfo(ReadyPod("p1", Image(component, V1), "h1", 0))>>}}

\* no entry, one entry or two entries of one component
VersionEntryLists(name, component) ==
    {<<>>} \cup {<<e>> : e \in {x \in VersionEntries(name, component) : x.actual_version = V1}}
           \cup {<<e1, e2>> : e1 \in {x \in VersionEntries(name, component) : x.pods # <<>>},
                              e2 \in VersionEntries(name, component)}

\* the component maps verified: each of the two components is absent or owns a list
VersionMaps ==
    {[c \in {BE} |-> b] : b \in VersionEntryLists(BE_NAME, BE)}
    \cup {[c \in {BE, FE} |-> IF c = BE THEN b ELSE f] :
             b \in VersionEntryLists(BE_NAME, BE), f \in {<<>>} \cup {<<e>> : e \in VersionEntries(FE_NAME, FE)}}
    \cup {<<>>}

\* the manifests verified: a dict, so no component is named twice
VersionManifests ==
    {<<>>} \cup {<<[name |-> c, version |-> v]>> : c \in {BE, FE}, v \in Versions}
           \cup {<<[name |-> BE, version |-> v], [name |-> FE, version |-> V1]>> : v \in Versions}
           \cup {<<[name |-> FE, version |-> V1], [name |-> BE, version |-> V2]>>}

\* the calls of verify_versions explored
VersionCalls ==
    {[fn |-> "verify_versions", manifest |-> m, component_map |-> cm, allow_zero_replicas |-> a] :
        m \in VersionManifests, cm \in VersionMaps, a \in BOOLEAN}

InitVerifyVersions == call \in VersionCalls /\ result = None /\ Parked

\* verify_versions is called and returns
VerifyVersionsCall ==
    /\ call.fn = "verify_versions"
    /\ result = None
    /\ result' = Some(verify_versions(call.manifest, call.component_map, call.allow_zero_replicas))
    /\ UNCHANGED <<driver_vars, call>>

NextVerifyVersions == VerifyVersionsCall

SpecVerifyVersions == InitVerifyVersions /\ [][NextVerifyVersions]_vars

\* ------------------------------------------------------------------------
\* Single calls of construct_component_map
\* ------------------------------------------------------------------------

\* an image outside the anchored repository, and one that does not parse
REDIS_IMAGE == <<"r", "e", "d", "i", "s", ":", "7">>

BLANK_IMAGE == <<" ">>

\* a running pod as the component mapper reads it
MapPod(name, init_containers, containers) ==
    [name |-> name, phase |-> "Running", init_containers |-> init_containers,
     containers |-> containers]

\* what one inspected workload may carry: a template only (scaled to zero),
\* one pod, two pods of one image, or a pod with an init container
MapContents ==
    {[pods |-> <<>>, pod_spec |-> Some(PodSpec(img))] :
        img \in {Image(BE, V1), Image(FE, V1), REDIS_IMAGE, BLANK_IMAGE}}
    \cup {[pods |-> <<MapPod("p1", <<>>, <<img>>)>>, pod_spec |-> Some(PodSpec(img))] :
            img \in {Image(BE, V2), Image(FE, V1)}}
    \cup {[pods |-> <<MapPod("p1", <<>>, <<Image(BE, V1)>>), MapPod("p2", <<>>, <<Image(BE, V1)>>)>>,
           pod_spec |-> Some(PodSpec(Image(BE, V1)))],
          [pods |-> <<MapPod("p1", <<Image(FE, V1)>>, <<Image(BE, V1)>>)>>,
           pod_spec |-> Some(PodSpec(Image(BE, V1)))],
          [pods |-> <<>>, pod_spec |-> None]}

\* the inspected workloads mapped
MapWorkloads ==
    {[name |-> n, type |-> "Deployment", namespace |-> "default", latest_revision |-> None,
      pods |-> c.pods, pod_spec |-> c.pod_spec, error |-> None] :
        n \in {BE_NAME, FE_NAME}, c \in MapContents}

\* the skip-pattern lists (_parse_comma_list keeps non-empty patterns only):
\* none, a component name, a part of a workload name only, one matching nothing
MapSkipLists == {<<>>, <<FE>>, <<<<"e", "-", "d">>>>, <<<<"x">>, <<"b", "e", "-">>>>}

\* the calls of construct_component_map explored
MapCalls ==
    {[fn |-> "construct_component_map", workloads |-> ws, manifest |-> m,
      repository_anchor |-> ANCHOR, skip_containers |-> s] :
        ws \in {<<>>} \cup {<<w>> : w \in MapWorkloads}
                      \cup {<<w1, w2>> : w1 \in MapWorkloads, w2 \in MapWorkloads},
        m \in Manifests, s \in MapSkipLists}

InitComponentMap == call \in MapCalls /\ result = None /\ Parked

\* construct_component_map is called and returns
ComponentMapCall ==
    /\ call.fn = "construct_component_map"
    /\ result = None
    /\ result' = Some(construct_component_map(call.workloads, call.manifest,
                                              call.repository_anchor, call.skip_containers))
    /\ UNCHANGED <<driver_vars, call>>

NextComponentMap == ComponentMapCall

SpecComponentMap == InitComponentMap /\ [][NextComponentMap]_vars

\* ------------------------------------------------------------------------
\* Single calls of the component mapper with aliases
\* ------------------------------------------------------------------------

\* a manifest key and the image-side name it goes by
FOO == <<"f", "o", "o">>

BAR_BAZ == <<"b", "a", "r", "-", "b", "a", "z">>

FOO_NAME == <<"f", "o", "o", "-", "d">>

\* an alias key that the manifest does not hold
NONEXISTENT == <<"n", "o">>

\* the inspected workloads mapped: a template only, or one running pod
AliasWorkloads ==
    {[name |-> n, type |-> "Deployment", namespace |-> "default", latest_revision |-> None,
      pods |-> pods, pod_spec |-> Some(PodSpec(img)), error |-> None] :
        n \in {FOO_NAME, BE_NAME},
        img \in {Image(BAR_BAZ, V1), Image(BAR_BAZ, V2), Image(FOO, V1), Image(BE, V1)},
        pods \in {<<>>, <<MapPod("p1", <<>>, <<Image(BAR_BAZ, V1)>>)>>}}

\* the manifests and the reverse alias maps (image-side name -> manifest key)
AliasManifests ==
    {<<[name |-> FOO, version |-> V1]>>,
     <<[name |-> FOO, version |-> V1], [name |-> BE, version |-> V1]>>,
     <<[name |-> BE, version |-> V1]>>}

ReverseAliasMaps == {<<>>, [n \in {BAR_BAZ} |-> FOO], [n \in {BAR_BAZ} |-> NONEXISTENT]}

\* the calls of the component mapper explored
AliasCalls ==
    {[fn |-> "build_map", workloads |-> ws, manifest |-> m, repository_anchor |-> ANCHOR,
      skip_containers |-> s, reverse_aliases |-> ra] :
        ws \in {<<>>} \cup {<<w>> : w \in AliasWorkloads}
                      \cup {<<w1, w2>> : w1 \in AliasWorkloads, w2 \in AliasWorkloads},
        m \in AliasManifests, s \in {<<>>, <<FOO>>, <<BAR_BAZ>>}, ra \in ReverseAliasMaps}

InitBuildMap == call \in AliasCalls /\ result = None /\ Parked

\* the component mapper is called with a reverse alias map and returns
BuildMapCall ==
    /\ call.fn = "build_map"
    /\ result = None
    /\ result' = Some(build_map(call.workloads, call.manifest, call.repository_anchor,
                                call.skip_containers, call.reverse_aliases))
    /\ UNCHANGED <<driver_vars, call>>

NextBuildMap == BuildMapCall

SpecBuildMap == InitBuildMap /\ [][NextBuildMap]_vars

\* ------------------------------------------------------------------------
\* Runs configured with component aliases (spec 4.D aliases invariant and
\* section 7 ConfigError; tests/test_cli.py TestBuildReverseAliasMap)
\* ------------------------------------------------------------------------

\* one pass over the alias items (manifest key -> image-side name), inverting
\* them; an image-side name met twice raises "Duplicate component alias"
RECURSIVE reverse_aliases_from(_, _)
reverse_aliases_from(items, reverse) ==
    IF items = <<>> THEN [ok |-> TRUE, map |-> reverse]
    ELSE IF items[1].image_name \in DOMAIN reverse THEN [ok |-> FALSE]
    ELSE reverse_aliases_from(Tail(items),
                              [n \in DOMAIN reverse \cup {items[1].image_name} |->
                                  IF n = items[1].image_name THEN items[1].key ELSE reverse[n]])

\* the inversion letting a later alias overwrite an earlier one
build_reverse_alias_map_last_wins(aliases, manifest) ==
    [ok |-> TRUE,
     map |-> [n \in {aliases[i].image_name : i \in 1..Len(aliases)} |->
                 aliases[CHOOSE i \in 1..Len(aliases) :
                            /\ aliases[i].image_name = n
                            /\ \A j \in (i + 1)..Len(aliases) : aliases[j].image_name # n].key]]

\* build_reverse_alias_map(aliases, manifest): [ok |-> TRUE, map] or
\* [ok |-> FALSE] when it raises ValueError; an alias key absent from the
\* manifest is only logged
build_reverse_alias_map(aliases, manifest) == reverse_aliases_from(aliases, <<>>)

\* the alias configurations: none, one alias, one alias whose key the manifest
\* lacks, and two manifest keys going by the same image-side name
AliasConfigs ==
    {<<>>,
     <<[key |-> FE, image_name |-> BAR_BAZ]>>,
     <<[key |-> NONEXISTENT, image_name |-> BAR_BAZ]>>,
     <<[key |-> BE, image_name |-> FOO], [key |-> FE, image_name |-> BAR_BAZ]>>,
     <<[key |-> BE, image_name |-> BAR_BAZ], [key |-> FE, image_name |-> BAR_BAZ]>>}

\* the arguments of the runs with aliases; no image of the cluster carries one
\* of the aliased names
AliasArgSets ==
    [dry_run : BOOLEAN,
     timeout : Timeouts,
     allow_zero_replicas : {FALSE},
     manifest : {<<[name |-> BE, version |-> V1], [name |-> FE, version |-> V1]>>},
     required_workloads : {<<>>},
     skip_containers : {<<>>},
     anchor : {ANCHOR},
     namespace : {"default"},
     restart_threshold : {DEFAULT_RESTART_THRESHOLD},
     min_uptime : {0},
     include : {NoInclude},
     component_aliases : AliasConfigs]

InitAliases ==
    /\ args \in AliasArgSets
    /\ DriverInit
    /\ call = NoCall
    /\ result = None

\* initialisation succeeds: the alias map inverts without a duplicate
InitializeWithAliases ==
    /\ build_reverse_alias_map(args.component_aliases, args.manifest).ok
    /\ Initialize

NextAliases ==
    \/ InitializeWithAliases
    \/ InitializeFails
    \/ CheckTimeout
    \/ DiscoveryFails
    \/ Iterate
    \/ Sleep
    \/ EmitReport
    \/ ReportFails

SpecAliases == InitAliases /\ [][NextAliases]_vars

\* ------------------------------------------------------------------------
\* Single passes of the verification loop
\* ------------------------------------------------------------------------

WEB_NAME == <<"w", "e", "b">>

\* a Deployment `name` with one pod running the containers `images`, the pod
\* having restarted `restarts` times
PassWorkload(name, images, restarts) ==
    [name |-> name, type |-> "Deployment",
     template |-> Some([init_containers |-> <<>>, containers |-> images]),
     revision |-> Some([hash |-> "h1"]),
     pods_outcome |-> [kind |-> "ok",
                       pods |-> <<[ReadyPod("p1", images[1], "h1", restarts)
                                      EXCEPT !.containers = images]>>],
     read |-> Some(ControllerObject(3, 3))]

\* each workload is absent or present, healthy or restarting: the backend with
\* or without a frontend sidecar, the frontend, and a workload named web
\* running the frontend image, the backend image or an image outside the
\* manifest
PassChoices(name, imageLists) ==
    {<<>>} \cup {<<PassWorkload(name, images, r)>> :
                    images \in imageLists, r \in {0, DEFAULT_RESTART_THRESHOLD}}

PassClusters ==
    {b \o f \o w :
        b \in PassChoices(BE_NAME, {<<Image(BE, V1)>>, <<Image(BE, V1), Image(FE, V1)>>}),
        f \in PassChoices(FE_NAME, {<<Image(FE, V1)>>}),
        w \in PassChoices(WEB_NAME, {<<Image(FE, V1)>>, <<Image(BE, V2)>>, <<REDIS_IMAGE>>,
                                     <<Image(MISSING_COMPONENTS_KEY, V1)>>})}

\* the manifests of the passes: those of the driver and one whose component
\* carries the name of a key of the report
PassManifests ==
    Manifests \cup {<<[name |-> MISSING_COMPONENTS_KEY, version |-> V1]>>}

\* the arguments of the passes explored
PassArgSets ==
    [dry_run : BOOLEAN,
     timeout : {0},
     allow_zero_replicas : {FALSE},
     manifest : PassManifests,
     required_workloads : {<<>>, <<WEB_NAME>>, <<FE>>, <<WEB_NAME, FE>>},
     skip_containers : {<<>>, <<FE>>, <<WEB_NAME>>},
     anchor : {ANCHOR},
     namespace : {"default"},
     restart_threshold : {DEFAULT_RESTART_THRESHOLD},
     min_uptime : {0},
     include : {NoInclude}]

InitPass ==
    /\ args \in PassArgSets
    /\ \E cluster \in PassClusters :
         \E order \in CompletionOrders(task_count(cluster, args.skip_containers, args.include)) :
            call = [fn |-> "pass", cluster |-> cluster, order |-> order]
    /\ result = None
    /\ pc = "unit"
    /\ now = 0
    /\ start_time = 0
    /\ overall_status = "PASS"
    /\ verification_results = EmptyVerificationResults
    /\ stability_results = <<>>
    /\ missing_components = <<>>
    /\ missing_workloads = <<>>
    /\ skipped_workload_names = <<>>
    /\ iteration = NoIteration
    /\ report = None
    /\ exit_value = None
    /\ discover_calls = 0
    /\ sleeps = 0

\* what a pass discovered (d), what its checks found (b), and lines 809-822:
\* the status and next position decided from them
pass_decision(b) ==
    loop_decision(args.dry_run,
                  has_errors_of(b.verification_results, b.missing_components,
                                b.missing_workloads),
                  b.all_stable, overall_status)

\* the record of a pass, with the report generate_report makes of its results
\* (lines 824-833)
pass_record(d, b) ==
    [discovered |-> d, checks |-> b,
     decision |-> pass_decision(b),
     report |-> generate_report(pass_decision(b).status, b.verification_results,
                                b.stability_results, b.missing_components,
                                b.missing_workloads, args.namespace, b.skipped)]

\* lines 769-822: discovery, the checks made on what it returned, the decision
PassCall ==
    /\ call.fn = "pass"
    /\ result = None
    /\ result' = Some(pass_record(discover_cluster_state(call.cluster, args.namespace,
                                                         args.skip_containers, args.include,
                                                         call.order),
                                  LoopBody(call.cluster, call.order)))
    /\ UNCHANGED <<driver_vars, call>>

NextPass == PassCall

SpecPass == InitPass /\ [][NextPass]_vars

\* ------------------------------------------------------------------------
\* discover_cluster_state step by step: the inspection tasks run in a thread
\* pool and their futures are collected as they complete
\* ------------------------------------------------------------------------

\* the tasks submitted to the pool: the fetched workloads no pattern names
discovery_tasks(cluster, skip_patterns, include) ==
    LET kept(cw) == ~name_skipped(skip_patterns, cw.name)
    IN  SelectSeq(fetch_all_workloads(cluster, include), kept)

\* the names recorded as skipped instead of being submitted
discovery_skipped(cluster, skip_patterns, include) ==
    LET skipped(cw) == name_skipped(skip_patterns, cw.name)
        ws == SelectSeq(fetch_all_workloads(cluster, include), skipped)
    IN  [i \in 1..Len(ws) |-> ws[i].name]

\* a Deployment whose pod listing returns one pod, fails with a
\* KubernetesControllerException (no selector, read error), or fails otherwise
DiscoverWorkload(name, outcome) ==
    [name |-> name, type |-> "Deployment",
     template |-> Some(PodSpec(Image(BE, V1))),
     revision |-> Some([hash |-> "h1"]),
     pods_outcome |-> outcome,
     read |-> Some(ControllerObject(3, 3))]

PodListOutcomes ==
    {[kind |-> "ok", pods |-> <<ReadyPod("p1", Image(BE, V1), "h1", 0)>>],
     [kind |-> "controller_exception"],
     [kind |-> "exception"]}

DiscoverChoices(name) == {<<>>} \cup {<<DiscoverWorkload(name, o)>> : o \in PodListOutcomes}

DiscoverClusters ==
    {b \o f \o w : b \in DiscoverChoices(BE_NAME), f \in DiscoverChoices(FE_NAME),
                   w \in DiscoverChoices(WEB_NAME)}

\* largest thread pool explored
MaxWorkers == 3

DiscoverCalls ==
    {[fn |-> "discover_cluster_state", cluster |-> c, namespace |-> "default",
      skip_patterns |-> s, include |-> NoInclude, max_workers |-> n] :
        c \in DiscoverClusters, s \in {<<>>, <<WEB_NAME>>}, n \in 1..MaxWorkers}

\* the discovery is the one of a dry run that verifies the backend
InitDiscover ==
    /\ call \in DiscoverCalls
    /\ result = None
    /\ args = [dry_run |-> TRUE, timeout |-> 0, allow_zero_replicas |-> FALSE,
               manifest |-> <<[name |-> BE, version |-> V1]>>,
               required_workloads |-> <<>>, skip_containers |-> call.skip_patterns,
               anchor |-> ANCHOR, namespace |-> call.namespace,
               restart_threshold |-> DEFAULT_RESTART_THRESHOLD, min_uptime |-> 0,
               include |-> call.include]
    /\ pc = "unit"
    /\ now = 0
    /\ start_time = 0
    /\ overall_status = "PASS"
    /\ verification_results = EmptyVerificationResults
    /\ stability_results = <<>>
    /\ missing_components = <<>>
    /\ missing_workloads = <<>>
    /\ skipped_workload_names = <<>>
    /\ iteration = NoIteration
    /\ report = None
    /\ exit_value = None
    /\ discover_calls = 0
    /\ sleeps = 0

\* lines 152-176: the workloads are fetched and filtered and every task is
\* submitted to the pool, which queues them in submission order; pending are
\* the tasks whose future has not been collected
SubmitTasks ==
    /\ call.fn = "discover_cluster_state"
    /\ result = None
    /\ result' = Some([phase |-> "collecting",
                       queued |-> [i \in 1..Len(discovery_tasks(call.cluster,
                                                                call.skip_patterns,
                                                                call.include)) |-> i],
                       pending |-> 1..Len(discovery_tasks(call.cluster, call.skip_patterns,
                                                          call.include)),
                       inspection_results |-> <<>>,
                       skipped_workloads |-> discovery_skipped(call.cluster, call.skip_patterns,
                                                               call.include)])
    /\ UNCHANGED <<driver_vars, call>>

\* the tasks a worker thread of the pool is running
running_tasks(progress) ==
    progress.pending \ {progress.queued[i] : i \in 1..Len(progress.queued)}

\* line 175, ThreadPoolExecutor(max_workers): an idle worker takes the oldest
\* queued task
StartTask ==
    /\ call.fn = "discover_cluster_state"
    /\ result # None
    /\ result[1].phase = "collecting"
    /\ result[1].queued # <<>>
    /\ Cardinality(running_tasks(result[1])) < call.max_workers
    /\ result' = Some([result[1] EXCEPT !.queued = Tail(@)])
    /\ UNCHANGED <<driver_vars, call>>

\* ReturnDiscovery leaving the pool without waiting for its tasks
ReturnDiscovery_without_barrier ==
    /\ call.fn = "discover_cluster_state"
    /\ result # None
    /\ result[1].phase = "collecting"
    /\ result' = Some([result[1] EXCEPT !.phase = "returned"])
    /\ UNCHANGED <<driver_vars, call>>

\* lines 178-195: the next completed future, whichever running task it
\* belongs to, is collected: its result, or the partial result when it raised,
\* is appended
CollectFuture ==
    /\ call.fn = "discover_cluster_state"
    /\ result # None
    /\ result[1].phase = "collecting"
    /\ \E i \in running_tasks(result[1]) :
          result' = Some([result[1] EXCEPT
                            !.pending = @ \ {i},
                            !.inspection_results =
                                Append(@, task_result(discovery_tasks(call.cluster,
                                                                      call.skip_patterns,
                                                                      call.include)[i],
                                                      call.namespace, call.include))])
    /\ UNCHANGED <<driver_vars, call>>

\* line 197: every future collected, the results are returned
ReturnDiscovery ==
    /\ call.fn = "discover_cluster_state"
    /\ result # None
    /\ result[1].phase = "collecting"
    /\ result[1].pending = {}
    /\ result' = Some([result[1] EXCEPT !.phase = "returned"])
    /\ UNCHANGED <<driver_vars, call>>

NextDiscover == SubmitTasks \/ StartTask \/ CollectFuture \/ ReturnDiscovery

SpecDiscover == InitDiscover /\ [][NextDiscover]_vars

\* the pool runs every submitted task to completion and the collecting thread
\* is not starved
FairSpecDiscover == SpecDiscover /\ WF_vars(NextDiscover)

\* ------------------------------------------------------------------------
\* Single calls of parse_image_reference
\* ------------------------------------------------------------------------

\* the longest image spelled out character by character
MaxImageLen == 4

\* the characters the parser treats specially, two letters and whitespace
ImageChars == {"a", "b", "/", ":", "@", ".", " "}

\* every string over ImageChars of length n
RECURSIVE StringsOfLen(_)
StringsOfLen(n) ==
    IF n = 0 THEN {<<>>}
    ELSE {Append(s, c) : s \in StringsOfLen(n - 1), c \in ImageChars}

ShortImages == UNION {StringsOfLen(n) : n \in 0..MaxImageLen}

DIGEST == <<"@", "s", "h", "a", ":", "1">>

\* repository paths with the anchor in every position, with and without a
\* Docker Hub or other registry host in front
ImagePaths ==
    {<<BE>>, <<ANCHOR>>, <<ANCHOR, BE>>, <<ANCHOR, BE, FE>>, <<ANCHOR, BE, FE, BE>>,
     <<FE, ANCHOR, BE>>, <<FE, BE>>, <<ANCHOR, ANCHOR, FE>>, <<LIBRARY, BE>>}

ImageHosts == {None, Some(REGISTRY), Some(DOCKER_IO), Some(INDEX_DOCKER_IO),
               Some(<<"h", ":", "5">>)}

\* host/path[:tag], optionally padded with whitespace
LongImages ==
    {pad \o (IF h = None THEN <<>> ELSE h[1] \o <<"/">>) \o join(p, "/") \o t \o pad :
        h \in ImageHosts, p \in ImagePaths, t \in {<<>>, <<":">> \o V1},
        pad \in {<<>>, <<" ">>, <<"\t">>}}

ParseAnchors == {<<"a">>, <<"a", "b">>, ANCHOR}

\* the calls of parse_image_reference explored: every image as it is and with
\* a digest appended
ParseCalls ==
    {[fn |-> "parse_image_reference", image |-> i \o d, repository_anchor |-> a] :
        i \in ShortImages \cup LongImages, d \in {<<>>, DIGEST}, a \in ParseAnchors}

InitParse == call \in ParseCalls /\ result = None /\ Parked

\* parse_image_reference is called and returns or raises
ParseCall ==
    /\ call.fn = "parse_image_reference"
    /\ result = None
    /\ result' = Some(parse_image_reference(call.image, call.repository_anchor))
    /\ UNCHANGED <<driver_vars, call>>

NextParse == ParseCall

SpecParse == InitParse /\ [][NextParse]_vars

\* ------------------------------------------------------------------------
\* kubernetes_controller.py: _list_pods_with_selector, one page per step
\* ------------------------------------------------------------------------

\* most pages the API server holds for one selector
MaxPages == 3

\* largest total timeout of a listing explored
MaxListTimeout == 3

\* the listings explored: the server holds `pages` pages, page p carrying the
\* continue token of page p + 1 and the last page none
ListCalls ==
    {[fn |-> "_list_pods_with_selector", pages |-> n, timeout |-> t] :
        n \in 1..MaxPages, t \in 0..MaxListTimeout}

InitListPods == call \in ListCalls /\ result = None /\ Parked

\* the page list_namespaced_pod returns for the token _continue
requested_page(_continue) == IF _continue = None THEN 1 ELSE _continue[1]

\* ret.metadata._continue of page p
continue_of(p, pages) == IF p < pages THEN Some(p + 1) ELSE None

\* lines 503-506: the page is added and its token kept; no token ends the loop
after_page(progress, pages, elapsed) ==
    [progress EXCEPT !.elapsed = elapsed,
                     !.pods = Append(@, requested_page(progress._continue)),
                     !._continue = continue_of(requested_page(progress._continue), pages),
                     !.pc = IF continue_of(requested_page(progress._continue), pages) = None
                            THEN "returned" ELSE "while"]

\* after_error forgetting the token, so that the retry starts over
after_error_from_first_page(progress, timeout, elapsed) ==
    [progress EXCEPT !.elapsed = elapsed,
                     !.errors = @ + 1,
                     !._continue = None,
                     !.pc = IF elapsed >= timeout THEN "returned" ELSE "while"]

\* lines 507-511: the error is logged, the token kept, and after the sleep the
\* loop ends when the budget is used up
after_error(progress, timeout, elapsed) ==
    [progress EXCEPT !.elapsed = elapsed,
                     !.errors = @ + 1,
                     !.pc = IF elapsed >= timeout THEN "returned" ELSE "while"]

\* lines 494-496
ListBegin ==
    /\ call.fn = "_list_pods_with_selector"
    /\ result = None
    /\ result' = Some([pc |-> "while", elapsed |-> 0, pods |-> <<>>, _continue |-> None,
                       errors |-> 0])
    /\ UNCHANGED <<driver_vars, call>>

\* lines 498-506: within the budget, the call returns a page after d seconds
ListPage ==
    /\ call.fn = "_list_pods_with_selector"
    /\ result # None
    /\ result[1].pc = "while"
    /\ result[1].elapsed < call.timeout
    /\ \E d \in 0..MaxDelay :
          result' = Some(after_page(result[1], call.pages, result[1].elapsed + d))
    /\ UNCHANGED <<driver_vars, call>>

\* lines 498-511: within the budget, the call raises after d seconds and the
\* handler sleeps one second
ListError ==
    /\ call.fn = "_list_pods_with_selector"
    /\ result # None
    /\ result[1].pc = "while"
    /\ result[1].elapsed < call.timeout
    /\ \E d \in 0..MaxDelay :
          result' = Some(after_error(result[1], call.timeout, result[1].elapsed + d + 1))
    /\ UNCHANGED <<driver_vars, call>>

\* lines 498, 513: the budget is used up
ListTimeout ==
    /\ call.fn = "_list_pods_with_selector"
    /\ result # None
    /\ result[1].pc = "while"
    /\ result[1].elapsed >= call.timeout
    /\ result' = Some([result[1] EXCEPT !.pc = "returned"])
    /\ UNCHANGED <<driver_vars, call>>

NextListPods == ListBegin \/ ListPage \/ ListError \/ ListTimeout

SpecListPods == InitListPods /\ [][NextListPods]_vars

\* the listing thread keeps running and every API call returns or raises
FairSpecListPods == SpecListPods /\ WF_vars(NextListPods)

\* ------------------------------------------------------------------------
\* stability_audit.py: check_pod_health as a unit
\* ------------------------------------------------------------------------

\* the container statuses of a pod: none reported, one container (restarting
\* below, at and above the threshold, waiting for each reason), or a quiet
\* container followed by one of those
HealthStatuses ==
    {[name |-> "main", restart_count |-> r, waiting |-> w] :
        r \in {0, DEFAULT_RESTART_THRESHOLD - 1, DEFAULT_RESTART_THRESHOLD,
               DEFAULT_RESTART_THRESHOLD + 1},
        w \in {None, Some("ContainerCreating")} \cup {Some(b) : b \in BadWaitingReasons}}

HealthStatusLists ==
    {<<>>} \cup {<<s>> : s \in HealthStatuses}
           \cup {<<[name |-> "init", restart_count |-> 0, waiting |-> None], s>> :
                    s \in HealthStatuses}

\* the conditions of a pod: none, Ready, not Ready, or no Ready condition
HealthConditions ==
    {<<>>, IsReady,
     <<[type |-> "PodScheduled", status |-> "True"], [type |-> "Ready", status |-> "False"]>>,
     <<[type |-> "PodScheduled", status |-> "True"], [type |-> "Ready", status |-> "True"]>>,
     <<[type |-> "PodScheduled", status |-> "True"]>>}

\* the calls of check_pod_health explored, made at time 10 on pods not
\* started, started at 0, at 5 and at 8
HealthCalls ==
    {[fn |-> "check_pod_health",
      pod |-> [AuditPod(CurrentLabels, d, c, 0, None, st) EXCEPT !.container_statuses = ss],
      restart_threshold |-> DEFAULT_RESTART_THRESHOLD,
      min_uptime_sec |-> mu,
      now |-> 10] :
        d \in {None, Some(9)}, c \in HealthConditions, ss \in HealthStatusLists,
        st \in {None, Some(0), Some(5), Some(8)}, mu \in {0, 5}}

InitPodHealth == call \in HealthCalls /\ result = None /\ Parked

\* StabilityAuditor.check_pod_health is called and returns
PodHealthCall ==
    /\ call.fn = "check_pod_health"
    /\ result = None
    /\ result' = Some(check_pod_health(call.pod, call.restart_threshold, call.min_uptime_sec,
                                       call.now))
    /\ UNCHANGED <<driver_vars, call>>

NextPodHealth == PodHealthCall

SpecPodHealth == InitPodHealth /\ [][NextPodHealth]_vars

\* ------------------------------------------------------------------------
\* Properties of the verification driver
\* ------------------------------------------------------------------------

\* the loop was left by a break: the report is about to be or has been attempted
LoopLeft == pc \in {"report", "report_failed", "returned"}

\* the (manifest item, entry) pairs of the latest checked pass whose entry
\* carries a version other than the manifest's
Mismatches ==
    IF iteration.outcome # "checked" THEN {}
    ELSE UNION {{<<args.manifest[i], iteration.component_map[args.manifest[i].name][j]>> :
                    j \in {k \in 1..Len(iteration.component_map[args.manifest[i].name]) :
                            iteration.component_map[args.manifest[i].name][k].actual_version
                                # args.manifest[i].version}} :
                i \in {k \in 1..Len(args.manifest) :
                        args.manifest[k].name \in DOMAIN iteration.component_map}}

\* C1: run_verification produces overall status PASS (the loop is left with
\* PASS, in dry-run and in normal mode) only from a pass through the loop in
\* which verify_versions returned no errors, validate_manifest no missing
\* components, verify_required_workloads no missing workloads, and every audited
\* workload had an empty error list.
C1_PassOnlyFromCleanIteration ==
    (LoopLeft /\ overall_status = "PASS") =>
        /\ iteration.outcome = "checked"
        /\ verification_results.errors = <<>>
        /\ missing_components = <<>>
        /\ missing_workloads = <<>>
        /\ \A k \in DOMAIN stability_results : stability_results[k].errors = <<>>
        /\ iteration.all_stable
        /\ ~iteration.has_errors

\* C1 witness: a normal-mode run that passes on its second pass and returns 0
C1_Witness ==
    /\ ~args.dry_run
    /\ pc = "returned"
    /\ exit_value = Some(0)
    /\ discover_calls = 2
    /\ DOMAIN stability_results # {}

\* C2 as stated, read in its favour (the report was printed, and the entry
\* has pods or zero replicas are allowed, so that the version comparison is
\* what decides it): a run whose latest pass found a mapped entry with a
\* version other than the manifest's ends with status FAIL and exit code 1,
\* and the report's errors contain "expected <expected>, found <actual>".
C2_MismatchEndsFail ==
    (pc = "returned"
     /\ \E x \in Mismatches : x[2].pods # <<>> \/ args.allow_zero_replicas) =>
        /\ overall_status = "FAIL"
        /\ exit_value = Some(1)
        /\ \A x \in Mismatches :
              (x[2].pods # <<>> \/ args.allow_zero_replicas) =>
                \E i \in 1..Len(report[1].details[x[1].name].errors) :
                    report[1].details[x[1].name].errors[i].error
                        = MismatchError(x[1].version, x[2].actual_version)

\* C2 amended: in dry-run mode such a run ends with status FAIL and exit code
\* 1, and a report that is emitted lists, for every such entry that has pods or
\* is verified with allow_zero_replicas, "expected <expected>, found <actual>"
\* among its component's errors; in normal mode the pass is retried, and a run
\* that ends on such a pass ends with TIMEOUT (exit code 2, or 1 when the
\* report could not be generated).
C2_DryRunMismatchEndsFail ==
    (LoopLeft /\ Mismatches # {}) =>
        IF args.dry_run
        THEN /\ overall_status = "FAIL"
             /\ pc \in Returned => exit_value = Some(1)
             /\ report # None =>
                  \A x \in Mismatches :
                     (x[2].pods # <<>> \/ args.allow_zero_replicas) =>
                        \E i \in 1..Len(report[1].details[x[1].name].errors) :
                            /\ report[1].details[x[1].name].errors[i].workload
                                  = x[2].workload_name
                            /\ report[1].details[x[1].name].errors[i].error
                                  = MismatchError(x[1].version, x[2].actual_version)
        ELSE /\ overall_status = "TIMEOUT"
             /\ pc = "returned" => exit_value = Some(2) /\ report[1].status = "TIMEOUT"
             /\ pc = "report_failed" => exit_value = Some(1)

\* C2 witness: a dry run that found a running pod at the wrong version and
\* reported it
C2_Witness ==
    /\ args.dry_run
    /\ pc = "returned"
    /\ \E x \in Mismatches : x[2].pods # <<>>
    /\ exit_value = Some(1)

\* C3 as stated: whenever the head-of-loop check finds the timeout elapsed,
\* the run ends with status TIMEOUT, a report on stdout and exit code 2.
C3_TimeoutEmitsReportExit2 ==
    (pc \in Returned /\ overall_status = "TIMEOUT") =>
        report # None /\ exit_value = Some(2)

\* C3 amended: the timeout is checked at the head of every pass; when the
\* elapsed time exceeds it there (also before any pass has completed) the
\* driver leaves the loop with status TIMEOUT and goes on to the report, and
\* the run returns 2 with a TIMEOUT report printed, unless generating the
\* report itself raises, in which case it returns 1.
C3_TimeoutAtHead ==
    /\ [][(pc = "head" /\ now - start_time > args.timeout)
            => (pc' = "report" /\ overall_status' = "TIMEOUT")]_vars
    /\ [][(pc = "head" /\ ~(now - start_time > args.timeout))
            => (pc' = "discover" /\ overall_status' = overall_status)]_vars
    /\ [][(pc # "head" /\ pc' = "discover") => FALSE]_vars
    /\ []((LoopLeft /\ overall_status = "TIMEOUT") =>
            /\ now - start_time > args.timeout
            /\ pc = "returned" => (/\ exit_value = Some(2)
                                   /\ report # None
                                   /\ report[1].status = "TIMEOUT")
            /\ pc = "report_failed" => (exit_value = Some(1) /\ report = None))

\* C3 witness: the timeout fired before any pass ran, and the report was printed
C3_Witness ==
    /\ pc = "returned"
    /\ overall_status = "TIMEOUT"
    /\ discover_calls = 0
    /\ report # None
    /\ exit_value = Some(2)

\* the status lines 811-819 prescribe for a checked pass
CheckedStatus == IF iteration.has_errors \/ ~iteration.all_stable THEN "FAIL" ELSE "PASS"

\* C4 as stated: a dry run that gets past initialisation executes exactly one
\* pass (discovery called once, no sleep, no retry) and ends with FAIL if
\* (has_errors or not all_stable) and PASS otherwise.  A failed discovery,
\* which ends the run without a status, is left to C6.
C4_DryRunExactlyOnePass ==
    (args.dry_run /\ pc \in Returned \ {"init_failed", "discovery_failed"}) =>
        /\ discover_calls = 1
        /\ sleeps = 0
        /\ iteration.outcome = "checked"
        /\ overall_status = CheckedStatus

\* C4 amended: a dry run executes at most one pass: it calls discovery at most
\* once, never sleeps and never retries; when that pass completes its checks
\* the run ends with FAIL if (has_errors or not all_stable) and PASS otherwise;
\* when the timeout has already elapsed at the first head-of-loop check it
\* ends with TIMEOUT without running any pass.
C4_DryRunAtMostOnePass ==
    args.dry_run =>
        /\ discover_calls <= 1
        /\ sleeps = 0
        /\ pc # "sleep"
        /\ LoopLeft =>
            IF discover_calls = 1
            THEN iteration.outcome = "checked" /\ overall_status = CheckedStatus
            ELSE /\ iteration.outcome = "none"
                 /\ overall_status = "TIMEOUT"
                 /\ now - start_time > args.timeout

\* C4 witness: a dry run that ended FAIL only because a workload was unstable
C4_Witness ==
    /\ args.dry_run
    /\ pc = "returned"
    /\ discover_calls = 1
    /\ iteration.outcome = "checked"
    /\ ~iteration.has_errors
    /\ ~iteration.all_stable
    /\ overall_status = "FAIL"

\* a step in which discovery (or component-map construction) raised
DiscoveryFailedStep ==
    pc = "discover" /\ discover_calls' = discover_calls + 1
    /\ iteration'.outcome = "discovery failed"

\* C5: in normal mode a failure of discovery or of component-map construction
\* never ends the run: the driver sleeps RETRY_INTERVAL and starts a new pass
\* at the timeout check, and the loop is left only with PASS (after a clean
\* pass) or by the timeout check.
C5_NormalModeRetries ==
    /\ [][(~args.dry_run /\ DiscoveryFailedStep)
            => (pc' = "sleep" /\ exit_value' = None /\ overall_status' = overall_status)]_vars
    /\ [][(~args.dry_run /\ pc = "sleep")
            => (pc' = "head" /\ now' = now + RETRY_INTERVAL_SECONDS /\ sleeps' = sleeps + 1)]_vars
    /\ [][(~args.dry_run /\ pc \notin {"report"} \cup Returned /\ pc' \in {"report"} \cup Returned)
            => \/ pc = "start" /\ pc' = "init_failed"
               \/ pc = "head" /\ pc' = "report" /\ overall_status' = "TIMEOUT"
               \/ pc = "discover" /\ pc' = "report" /\ overall_status' = "PASS"
                    /\ iteration'.outcome = "checked"]_vars
    /\ [](~args.dry_run => pc # "discovery_failed")

\* C5 witness: a normal-mode run that, after a failed discovery and a sleep,
\* is past the timeout check of its next pass
C5_Witness ==
    /\ ~args.dry_run
    /\ iteration.outcome = "discovery failed"
    /\ sleeps = 1
    /\ discover_calls = 1
    /\ pc = "discover"
    /\ exit_value = None

\* C6: in dry-run mode a discovery failure is not retried: run_verification
\* returns 1 at once, without sleeping and without emitting a report.
C6_DryRunDiscoveryFailure ==
    /\ [][(args.dry_run /\ DiscoveryFailedStep)
            => (/\ pc' = "discovery_failed"
                /\ exit_value' = Some(1)
                /\ sleeps' = sleeps
                /\ report' = None)]_vars
    /\ [](pc = "discovery_failed" =>
            /\ args.dry_run
            /\ exit_value = Some(1)
            /\ report = None
            /\ sleeps = 0
            /\ discover_calls = 1)
    /\ [][pc = "discovery_failed" => UNCHANGED vars]_vars

\* C6 witness: a dry run returned from the except branch
C6_Witness == pc = "discovery_failed" /\ args.dry_run /\ exit_value = Some(1)

\* C7: for every timeout and every sequence of observed cluster states
\* (also one that never converges, or one where discovery always fails) the
\* run eventually returns with a final status, given that every step returns
\* and the clock advances with each sleep; it sleeps at most once per
\* RETRY_INTERVAL_SECONDS of the timeout, and once more.
C7_Terminates ==
    /\ <>(pc \in Returned)
    /\ [](sleeps <= args.timeout \div RETRY_INTERVAL_SECONDS + 1)
    /\ [](pc = "returned" => overall_status \in {"PASS", "FAIL", "TIMEOUT"} /\ report # None)

\* C7 witness: a normal-mode run whose every discovery failed, ended by the
\* timeout after sleeping
C7_Witness ==
    /\ ~args.dry_run
    /\ pc = "returned"
    /\ overall_status = "TIMEOUT"
    /\ sleeps >= 2
    /\ iteration.outcome = "discovery failed"
    /\ verification_results = EmptyVerificationResults

\* C8: exit_code is total on VerificationStatus with PASS -> 0, TIMEOUT -> 2,
\* FAIL and SKIPPED -> 1, and every value run_verification returns
\* (initialisation failure and report failure return 1) is 0, 1 or 2.
C8_ExitCodes ==
    /\ \A st \in VerificationStatus :
          exit_code(st) = (IF st = "PASS" THEN 0 ELSE IF st = "TIMEOUT" THEN 2 ELSE 1)
    /\ overall_status \in VerificationStatus
    /\ pc \in Returned <=> exit_value # None
    /\ exit_value # None => exit_value[1] \in {0, 1, 2}
    /\ pc \in {"init_failed", "report_failed", "discovery_failed"} => exit_value = Some(1)
    /\ pc = "returned" =>
          exit_value = Some(IF overall_status = "PASS" THEN 0
                            ELSE IF overall_status = "TIMEOUT" THEN 2 ELSE 1)

\* C8 witness: the report could not be generated after a pass that had passed
C8_Witness == pc = "report_failed" /\ overall_status = "PASS" /\ exit_value = Some(1)

\* ------------------------------------------------------------------------
\* Properties of audit_workload and _verify_component_entry
\* ------------------------------------------------------------------------

\* C9: every StabilityAuditResult audit_workload returns (all workload kinds,
\* and the early returns for invalid workload info and for an object that
\* could not be fetched) has an empty error list if and only if converged,
\* revision_consistent, pods_healthy, scheduling_complete and job_complete are
\* all true.
C9_ErrorsEmptyIffAllFlags ==
    (call.fn = "audit_workload" /\ result # None) =>
        (result[1].errors = <<>>
            <=> (/\ result[1].converged
                 /\ result[1].revision_consistent
                 /\ result[1].pods_healthy
                 /\ result[1].scheduling_complete
                 /\ result[1].job_complete))

\* C9 witness: a DaemonSet with a pod audited stable, all five flags set
C9_Witness ==
    /\ call.fn = "audit_workload"
    /\ call.workload_info.type = "DaemonSet"
    /\ call.workload_info.pods # <<>>
    /\ result # None
    /\ result[1].errors = <<>>
    /\ result[1].scheduling_complete
    /\ result[1].job_complete

\* C10: for every component-map entry the version verifier returns FAIL with
\* a "0 running pods" error when the entry has no pods and allow_zero_replicas
\* is false, whatever the version; otherwise FAIL with "expected X, found Y"
\* when actual_version differs from the expected version; otherwise PASS
\* without an error.  So with allow_zero_replicas an entry without pods passes
\* exactly when its pod-spec version equals the expected version.
C10_VerifyEntryRule ==
    (call.fn = "_verify_component_entry" /\ result # None) =>
        LET e == call.entry
            r == result[1]
        IN  /\ (e.pods = <<>> /\ ~call.allow_zero_replicas) =>
                    /\ r.status = "FAIL"
                    /\ r.error = Some(ZeroPodsError(e.actual_version))
            /\ (~(e.pods = <<>> /\ ~call.allow_zero_replicas)
                /\ e.actual_version # call.expected_version) =>
                    /\ r.status = "FAIL"
                    /\ r.error = Some(MismatchError(call.expected_version, e.actual_version))
            /\ (~(e.pods = <<>> /\ ~call.allow_zero_replicas)
                /\ e.actual_version = call.expected_version) =>
                    /\ r.status = "PASS"
                    /\ r.error = None
            /\ (e.pods = <<>> /\ call.allow_zero_replicas) =>
                    (r.status = "PASS" <=> e.actual_version = call.expected_version)
            /\ r.status \in {"PASS", "FAIL"}

\* C10 witness: an entry without pods at the wrong version, verified without
\* allow_zero_replicas, fails with the "0 running pods" error
C10_Witness ==
    /\ call.fn = "_verify_component_entry"
    /\ call.entry.pods = <<>>
    /\ ~call.allow_zero_replicas
    /\ call.entry.actual_version # call.expected_version
    /\ result = Some([workload |-> call.entry.workload_name, type |-> call.entry.workload_type,
                      container |-> call.entry.container_name, status |-> "FAIL",
                      error |-> Some(ZeroPodsError(call.entry.actual_version))])

\* ------------------------------------------------------------------------
\* Properties of verify_versions
\* ------------------------------------------------------------------------

\* the names of the manifest's components
ManifestNames(manifest) == {manifest[i].name : i \in 1..Len(manifest)}

\* the positions of the entries of component c that fail their own check
FailingEntries(c) ==
    IF c \notin DOMAIN call.component_map THEN {}
    ELSE {i \in 1..Len(call.component_map[c]) :
             verify_component_entry(call.component_map[c][i],
                                    ManifestItem(call.manifest, c).version,
                                    call.allow_zero_replicas).status = "FAIL"}

\* the positions of the top-level messages about component c
TopMessages(c) == {i \in 1..Len(result[1].errors) : result[1].errors[i].component = c}

\* C11: verify_versions yields one result per manifest component; a component
\* is FAIL exactly when it is absent from the component map or one of its
\* entries is FAIL; the top-level error list holds one message per missing
\* component and one per failing entry, and nothing else, so it is empty
\* exactly when every component is PASS.
C11_VerifyVersionsAggregation ==
    (call.fn = "verify_versions" /\ result # None) =>
        /\ DOMAIN result[1].components = ManifestNames(call.manifest)
        /\ \A c \in ManifestNames(call.manifest) :
              /\ result[1].components[c].status \in {"PASS", "FAIL"}
              /\ result[1].components[c].status = "FAIL"
                    <=> (c \notin DOMAIN call.component_map \/ FailingEntries(c) # {})
              /\ Cardinality(TopMessages(c))
                    = IF c \notin DOMAIN call.component_map THEN 1
                      ELSE Cardinality(FailingEntries(c))
              /\ c \notin DOMAIN call.component_map =>
                    \A i \in TopMessages(c) : "msg" \in DOMAIN result[1].errors[i]
              /\ c \in DOMAIN call.component_map =>
                    \A i \in TopMessages(c) :
                        \E j \in FailingEntries(c) :
                            /\ "workload" \in DOMAIN result[1].errors[i]
                            /\ result[1].errors[i].workload = call.component_map[c][j].workload_name
        /\ \A i \in 1..Len(result[1].errors) :
              result[1].errors[i].component \in ManifestNames(call.manifest)
        /\ result[1].errors = <<>>
              <=> \A c \in ManifestNames(call.manifest) : result[1].components[c].status = "PASS"

\* a call whose manifest names a missing component and a component with one
\* failing and one passing entry
C11_Witness ==
    /\ call.fn = "verify_versions"
    /\ result # None
    /\ Len(call.manifest) = 2
    /\ FE \notin DOMAIN call.component_map
    /\ BE \in DOMAIN call.component_map
    /\ Len(call.component_map[BE]) = 2
    /\ Cardinality(FailingEntries(BE)) = 1
    /\ Len(result[1].errors) = 2

\* ------------------------------------------------------------------------
\* Properties of construct_component_map
\* ------------------------------------------------------------------------

\* a pattern of the call is a substring of the text
PatternIn(text) ==
    \E i \in 1..Len(call.skip_containers) : IsSubstr(call.skip_containers[i], text)

\* entry e under key k comes from a container of a workload of the call whose
\* parsed component is k, is in the manifest, and is matched by no pattern
\* either by component or by workload name
EntryOrigin(k, e) ==
    \E i \in 1..Len(call.workloads) :
        \E j \in 1..Len(extract_containers(call.workloads[i])) :
            LET parsed == parse_image_reference(extract_containers(call.workloads[i])[j].image,
                                                call.repository_anchor)
            IN  /\ parsed.ok
                /\ parsed.component = k
                /\ parsed.version = e.actual_version
                /\ call.workloads[i].name = e.workload_name
                /\ call.workloads[i].type = e.workload_type
                /\ InManifest(call.manifest, parsed.component)
                /\ ~PatternIn(parsed.component)
                /\ ~PatternIn(call.workloads[i].name)

\* C12: every entry of the map built by construct_component_map sits under a
\* key that is a manifest component name and comes from a container whose
\* parsed component is in the manifest and for which no skip pattern is a
\* substring of the parsed component or of the workload name.
C12_MapEntriesInManifestUnskipped ==
    (call.fn = "construct_component_map" /\ result # None) =>
        \A k \in DOMAIN result[1] :
            /\ InManifest(call.manifest, k)
            /\ \A i \in 1..Len(result[1][k]) :
                  /\ EntryOrigin(k, result[1][k][i])
                  /\ ~PatternIn(k)
                  /\ ~PatternIn(result[1][k][i].workload_name)

\* a map with an entry, built while a pattern dropped the other workload and a
\* container outside the manifest was passed over
C12_Witness ==
    /\ call.fn = "construct_component_map"
    /\ result # None
    /\ DOMAIN result[1] = {BE}
    /\ Len(call.workloads) = 2
    /\ call.skip_containers # <<>>
    /\ PatternIn(call.workloads[2].name)
    /\ ~PatternIn(call.workloads[1].name)
    /\ call.workloads[1].pods # <<>>
    /\ call.workloads[1].pods[1].init_containers # <<>>

\* ------------------------------------------------------------------------
\* Properties of the component mapper with aliases
\* ------------------------------------------------------------------------

\* the parse of container j of workload i of the call
CallParsed(i, j) ==
    parse_image_reference(extract_containers(call.workloads[i])[j].image, call.repository_anchor)

\* container j of workload i carries an image-side name that a reverse alias
\* maps to a manifest key, and no skip pattern drops it
AliasedContainer(i, j) ==
    /\ CallParsed(i, j).ok
    /\ CallParsed(i, j).component \in DOMAIN call.reverse_aliases
    /\ InManifest(call.manifest, call.reverse_aliases[CallParsed(i, j).component])
    /\ ~PatternIn(CallParsed(i, j).component)
    /\ ~PatternIn(call.workloads[i].name)

\* every entry under key k carries the manifest's version and has running pods
AllEntriesMatch(k) ==
    \A n \in 1..Len(result[1][k]) :
        /\ result[1][k][n].actual_version = ManifestItem(call.manifest, k).version
        /\ result[1][k][n].pods # <<>>

DuplicateAlias ==
    \E i, j \in 1..Len(args.component_aliases) :
        /\ i # j
        /\ InManifest(args.manifest, args.component_aliases[i].key)
        /\ InManifest(args.manifest, args.component_aliases[j].key)
        /\ args.component_aliases[i].key # args.component_aliases[j].key
        /\ args.component_aliases[i].image_name = args.component_aliases[j].image_name

Discovered == result[1].discovered.results

\* the discovered item owns an entry of the pass's component map
OwnsEntry(item) ==
    \E e \in map_entries(result[1].checks.component_map) :
        e.workload_type = item.type /\ e.workload_name = item.name

\* the discovered item's name contains a required-workload pattern
NameRequired(item) ==
    \E i \in 1..Len(args.required_workloads) : IsSubstr(args.required_workloads[i], item.name)

\* C15: in every pass the workloads audited for stability are exactly the
\* discovered workloads that own an entry in the component map or whose name
\* contains a required-workload pattern, and all_stable is false only when one
\* of these has an audit error.
C15_AuditedExactlyMappedOrRequired ==
    (call.fn = "pass" /\ result # None) =>
        /\ DOMAIN result[1].checks.stability_results
              = {WKey(Discovered[i].type, Discovered[i].name) :
                    i \in {n \in 1..Len(Discovered) :
                              OwnsEntry(Discovered[n]) \/ NameRequired(Discovered[n])}}
        /\ result[1].checks.all_stable
              <=> \A k \in DOMAIN result[1].checks.stability_results :
                      result[1].checks.stability_results[k].errors = <<>>

\* a pass over three discovered workloads of which one owns a map entry, one
\* is audited as required only and is the one that is unstable, and one is
\* left alone although it is restarting
C15_Witness ==
    /\ call.fn = "pass"
    /\ result # None
    /\ Len(Discovered) = 3
    /\ Cardinality(DOMAIN result[1].checks.stability_results) = 2
    /\ \E i \in 1..3 : ~OwnsEntry(Discovered[i]) /\ NameRequired(Discovered[i])
                       /\ result[1].checks.stability_results[
                              WKey(Discovered[i].type, Discovered[i].name)].errors # <<>>
    /\ \E i \in 1..3 : OwnsEntry(Discovered[i]) /\ ~NameRequired(Discovered[i])
    /\ \E i \in 1..3 : /\ ~OwnsEntry(Discovered[i]) /\ ~NameRequired(Discovered[i])
                       /\ Discovered[i].pods[1].container_statuses[1].restart_count
                              = DEFAULT_RESTART_THRESHOLD
    /\ ~result[1].checks.all_stable

\* the images of the containers a cluster workload runs or would run
WorkloadImages(cw) ==
    {cw.template[1].containers[i] : i \in 1..Len(cw.template[1].containers)}
    \cup UNION {{cw.pods_outcome.pods[p].containers[i] :
                    i \in 1..Len(cw.pods_outcome.pods[p].containers)} :
                 p \in 1..Len(cw.pods_outcome.pods)}

\* a skip pattern of the run is a substring of the text
SkipPatternIn(text) ==
    \E i \in 1..Len(args.skip_containers) : IsSubstr(args.skip_containers[i], text)

\* a skip pattern is a substring of the parsed component of one of the
\* workload's containers
ComponentSkipped(cw) ==
    \E image \in WorkloadImages(cw) :
        /\ parse_image_reference(image, args.anchor).ok
        /\ SkipPatternIn(parse_image_reference(image, args.anchor).component)

\* the workload is audited for stability in the pass
Audited(cw) == WKey(cw.type, cw.name) \in DOMAIN result[1].checks.stability_results

\* the workload is given a version verification result in the pass
VersionVerified(cw) ==
    \E c \in DOMAIN result[1].checks.verification_results.components :
        \E i \in 1..Len(result[1].checks.verification_results.components[c].workloads) :
            result[1].checks.verification_results.components[c].workloads[i].workload = cw.name

\* the workload is inspected in the pass
Inspected(cw) == \E i \in 1..Len(Discovered) : Discovered[i].name = cw.name

\* C16: no workload matching a skip pattern, by its name or by the parsed
\* component of one of its containers, is audited for stability or given a
\* version verification result; a workload matching by name is not inspected
\* and its name is in the skipped-names list.
C16_SkippedNeverAuditedNorVerified ==
    (call.fn = "pass" /\ result # None) =>
        \A n \in 1..Len(call.cluster) :
            /\ (SkipPatternIn(call.cluster[n].name) \/ ComponentSkipped(call.cluster[n])) =>
                  ~Audited(call.cluster[n]) /\ ~VersionVerified(call.cluster[n])
            /\ SkipPatternIn(call.cluster[n].name) =>
                  /\ ~Inspected(call.cluster[n])
                  /\ \E i \in 1..Len(result[1].checks.skipped) :
                        result[1].checks.skipped[i] = call.cluster[n].name

\* ------------------------------------------------------------------------
\* Properties of discover_cluster_state
\* ------------------------------------------------------------------------

\* the snapshots collected so far for the workload named name
SnapshotsOf(name) ==
    {i \in 1..Len(result[1].inspection_results) : result[1].inspection_results[i].name = name}

\* the snapshot the workload gets when it is the only workload of the cluster
AloneSnapshot(cw) ==
    discover_cluster_state(<<cw>>, call.namespace, <<>>, call.include, <<1>>).results[1]

\* what the snapshot of a submitted workload looks like, by the outcome of its
\* own pod listing
SnapshotByOutcome(cw, s) ==
    /\ cw.pods_outcome.kind = "exception" =>
          s.error # None /\ s.pods = <<>> /\ s.pod_spec = None
    /\ cw.pods_outcome.kind = "controller_exception" =>
          s.error = None /\ s.pods = <<>> /\ s.pod_spec = cw.template
    /\ cw.pods_outcome.kind = "ok" =>
          s.error = None /\ s.pods = cw.pods_outcome.pods /\ s.pod_spec = cw.template

\* every collected snapshot is the one its workload gets on its own
SnapshotsIndependent ==
    \A n \in 1..Len(call.cluster) :
        \A i \in SnapshotsOf(call.cluster[n].name) :
            /\ result[1].inspection_results[i] = AloneSnapshot(call.cluster[n])
            /\ SnapshotByOutcome(call.cluster[n], result[1].inspection_results[i])

\* after the return every submitted workload has exactly one snapshot
AllCollected ==
    result[1].phase = "returned" =>
        /\ Len(result[1].inspection_results)
              = Len(discovery_tasks(call.cluster, call.skip_patterns, call.include))
        /\ \A n \in 1..Len(call.cluster) :
              ~name_skipped(call.skip_patterns, call.cluster[n].name) =>
                  Cardinality(SnapshotsOf(call.cluster[n].name)) = 1

\* C17: an inspection task that raises neither aborts discovery nor alters
\* the snapshot of any other workload: discovery returns, with one snapshot per
\* submitted workload, each the snapshot that workload gets on its own; the
\* failing workload's snapshot has its error set, and a workload whose pod
\* listing fails with a controller exception has empty pods and no error.
C17_InspectionFailuresIsolated ==
    /\ []((call.fn = "discover_cluster_state" /\ result # None) =>
              SnapshotsIndependent /\ AllCollected)
    /\ <>(call.fn = "discover_cluster_state" => result # None /\ result[1].phase = "returned")

\* discovery has returned three snapshots: the first collected is the one of a
\* task that raised, another has a failed pod listing, another lists its pod
C17_Witness ==
    /\ call.fn = "discover_cluster_state"
    /\ result # None
    /\ result[1].phase = "returned"
    /\ Len(result[1].inspection_results) = 3
    /\ result[1].inspection_results[1].error # None
    /\ \E i \in 2..3 : /\ result[1].inspection_results[i].error = None
                       /\ result[1].inspection_results[i].pods # <<>>
    /\ \E i \in 2..3 : /\ result[1].inspection_results[i].error = None
                       /\ result[1].inspection_results[i].pods = <<>>
                       /\ result[1].inspection_results[i].pod_spec # None

\* ------------------------------------------------------------------------
\* Properties of parse_image_reference
\* ------------------------------------------------------------------------

\* the image is empty or made of whitespace only
Blank(image) == \A i \in 1..Len(image) : image[i] \in Whitespace

\* the image without surrounding whitespace and without its @-suffix
Undigested(image) ==
    IF HasChar(strip(image), "@")
    THEN SubSeq(strip(image), 1, IndexOf(strip(image), "@") - 1)
    ELSE strip(image)

\* the text after the last "/" of the image
LastSegment(image) == split(Undigested(image), "/")[Len(split(Undigested(image), "/"))]

\* the last segment without its tag
LastName(image) ==
    IF HasChar(LastSegment(image), ":")
    THEN SubSeq(LastSegment(image), 1, LastIndexOf(LastSegment(image), ":") - 1)
    ELSE LastSegment(image)

\* the fields of an ImageReference
ImageReferenceFields == {"ok", "component", "version", "sub_image", "full_image", "registry"}

\* C18: parse_image_reference raises exactly for empty or whitespace-only
\* input; for every other image and every anchor it returns an ImageReference,
\* and when the anchor is not among the path segments the component is the
\* last path segment.
C18_ParseFailsOnlyOnBlank ==
    (call.fn = "parse_image_reference" /\ result # None) =>
        /\ ~result[1].ok <=> Blank(call.image)
        /\ result[1].ok =>
              /\ DOMAIN result[1] = ImageReferenceFields
              /\ result[1].full_image = strip(call.image)
              /\ result[1].version # <<>> \/ HasChar(call.image, ":")
              /\ ~IsSubstr(call.repository_anchor, call.image) =>
                    result[1].component = LastName(call.image) /\ result[1].sub_image = None

\* an image without the anchor parsed by the fallback, and padded with
\* whitespace
C18_Witness ==
    /\ call.fn = "parse_image_reference"
    /\ result # None
    /\ result[1].ok
    /\ call.repository_anchor = ANCHOR
    /\ call.image = <<" ">> \o FE \o <<"/">> \o BE \o <<":">> \o V1 \o <<" ">>
    /\ result[1].component = BE
    /\ result[1].version = V1

\* the "/"-separated segments of the image, tag and @-suffix removed
NameSegments(image) ==
    [split(Undigested(image), "/") EXCEPT ![Len(split(Undigested(image), "/"))] = LastName(image)]

\* the repository path: the segments after the registry host, if there is one
RepositoryPath(image) ==
    IF /\ Len(NameSegments(image)) > 1
       /\ HasChar(NameSegments(image)[1], ".") \/ HasChar(NameSegments(image)[1], ":")
    THEN Tail(NameSegments(image))
    ELSE NameSegments(image)

\* the position of the first anchor segment of the repository path that has a
\* segment after it (0: there is none)
AnchorPosition(image, anchor) ==
    IF \E k \in 1..(Len(RepositoryPath(image)) - 1) : RepositoryPath(image)[k] = anchor
    THEN CHOOSE k \in 1..(Len(RepositoryPath(image)) - 1) :
            /\ RepositoryPath(image)[k] = anchor
            /\ \A j \in 1..(k - 1) : RepositoryPath(image)[j] # anchor
    ELSE 0

\* C19: when the repository path contains the anchor segment followed by at
\* least one more segment, the component is the first segment after the anchor
\* and sub_image is the "/"-joined rest, absent when nothing is left.
C19_ComponentFollowsAnchor ==
    (call.fn = "parse_image_reference" /\ result # None /\ ~Blank(call.image)
     /\ AnchorPosition(call.image, call.repository_anchor) # 0) =>
        LET path == RepositoryPath(call.image)
            k == AnchorPosition(call.image, call.repository_anchor)
        IN  /\ result[1].ok
            /\ result[1].component = path[k + 1]
            /\ result[1].sub_image = IF k + 1 < Len(path)
                                     THEN Some(join(SubSeq(path, k + 2, Len(path)), "/"))
                                     ELSE None

\* r.io/app/be/fe/be:v1 with anchor app: component be, sub_image fe/be
C19_Witness ==
    /\ call.fn = "parse_image_reference"
    /\ result # None
    /\ call.repository_anchor = ANCHOR
    /\ call.image = REGISTRY \o <<"/">> \o join(<<ANCHOR, BE, FE, BE>>, "/") \o <<":">> \o V1
    /\ result[1].ok
    /\ result[1].component = BE
    /\ result[1].sub_image = Some(join(<<FE, BE>>, "/"))

\* the parse of the call's image with a digest appended
WithDigest == parse_image_reference(call.image \o DIGEST, call.repository_anchor)

\* the two parses agree on component, version, sub_image and registry
SameButFullImage(r, d) ==
    /\ r.ok
    /\ d.ok
    /\ r.component = d.component
    /\ r.version = d.version
    /\ r.sub_image = d.sub_image
    /\ r.registry = d.registry

\* C20 as stated: for every image that parses and every anchor, appending a
\* digest suffix leaves component, version, sub_image and registry of the
\* parse unchanged.
C20_DigestLeavesParseUnchanged ==
    (call.fn = "parse_image_reference" /\ result # None /\ result[1].ok) =>
        SameButFullImage(result[1], WithDigest)

\* C20 amended: for every image that parses and does not end in whitespace,
\* and every anchor, appending a digest suffix leaves component, version,
\* sub_image and registry of the parse unchanged; full_image differs.
C20_DigestLeavesUnpaddedParseUnchanged ==
    (call.fn = "parse_image_reference" /\ result # None /\ ~Blank(call.image)
     /\ call.image[Len(call.image)] \notin Whitespace) =>
        /\ SameButFullImage(result[1], WithDigest)
        /\ result[1].full_image # WithDigest.full_image

\* r.io/app/be:v1 parses to be, v1, r.io with and without the digest
C20_Witness ==
    /\ call.fn = "parse_image_reference"
    /\ result # None
    /\ call.image = Image(BE, V1)
    /\ call.repository_anchor = ANCHOR
    /\ result[1].ok
    /\ WithDigest.ok
    /\ WithDigest.component = BE
    /\ WithDigest.version = V1
    /\ WithDigest.registry = Some(REGISTRY)
    /\ WithDigest.full_image = Image(BE, V1) \o DIGEST

\* C21 as stated: every ImageReference returned by parse_image_reference has
\* a non-empty component, for every accepted input and every anchor.
C21_ComponentNonEmpty ==
    (call.fn = "parse_image_reference" /\ result # None /\ result[1].ok) =>
        result[1].component # <<>>

\* no "/"-separated segment of the image name is empty once the @-suffix and
\* the tag are removed
NoEmptySegment(image) ==
    \A i \in 1..Len(NameSegments(image)) : NameSegments(image)[i] # <<>>

\* C21 amended: every ImageReference returned for an image whose name, with
\* the @-suffix and the tag removed, has no empty "/"-separated segment has a
\* non-empty component, for every anchor.
C21_ComponentNonEmptyWithoutEmptySegment ==
    (call.fn = "parse_image_reference" /\ result # None /\ result[1].ok
     /\ NoEmptySegment(call.image)) =>
        result[1].component # <<>>

\* the anchor is the last path segment and becomes the component
C21_Witness ==
    /\ call.fn = "parse_image_reference"
    /\ result # None
    /\ result[1].ok
    /\ call.repository_anchor = ANCHOR
    /\ call.image = REGISTRY \o <<"/">> \o ANCHOR \o <<":">> \o V1
    /\ NoEmptySegment(call.image)
    /\ result[1].component = ANCHOR

\* the required pattern is a substring of the name of a discovered snapshot
PatternDiscovered(pattern) ==
    \E i \in 1..Len(Discovered) : IsSubstr(pattern, Discovered[i].name)

\* the positions of the messages about the required pattern
MissingMessages(pattern) ==
    {i \in 1..Len(result[1].checks.missing_workloads) :
        result[1].checks.missing_workloads[i].required = pattern}

\* C22: verify_required_workloads returns one error per required pattern that
\* is a substring of no discovered snapshot's name and none for a pattern that
\* some discovered name contains, and a pass with such an error does not end
\* with PASS: in dry-run it ends FAIL, otherwise the loop sleeps and retries.
C22_RequiredWorkloadErrors ==
    (call.fn = "pass" /\ result # None) =>
        /\ \A n \in 1..Len(args.required_workloads) :
              Cardinality(MissingMessages(args.required_workloads[n]))
                  = IF PatternDiscovered(args.required_workloads[n]) THEN 0 ELSE 1
        /\ Len(result[1].checks.missing_workloads)
              = Cardinality({n \in 1..Len(args.required_workloads) :
                                ~PatternDiscovered(args.required_workloads[n])})
        /\ result[1].checks.missing_workloads # <<>> =>
              /\ result[1].decision.status # "PASS" \/ result[1].decision.pc = "sleep"
              /\ result[1].decision = IF args.dry_run THEN [status |-> "FAIL", pc |-> "report"]
                                      ELSE [status |-> "PASS", pc |-> "sleep"]

\* two required patterns, one found in a discovered name and one in none, in
\* a pass that is otherwise clean
C22_Witness ==
    /\ call.fn = "pass"
    /\ result # None
    /\ Len(args.required_workloads) = 2
    /\ Len(result[1].checks.missing_workloads) = 1
    /\ result[1].checks.missing_components = <<>>
    /\ result[1].checks.verification_results.errors = <<>>
    /\ result[1].checks.all_stable
    /\ ~args.dry_run
    /\ result[1].decision.pc = "sleep"

\* ------------------------------------------------------------------------
\* Properties of the generated report (spec SpecPass)
\* ------------------------------------------------------------------------

PassDone == call.fn = "pass" /\ result # None

\* the stability audit of the workload type/name recorded errors
AuditHasErrors(type, name) ==
    /\ WKey(type, name) \in DOMAIN result[1].checks.stability_results
    /\ result[1].checks.stability_results[WKey(type, name)].errors # <<>>

\* the components whose entry of details is their ComponentReport
ReportedComponents ==
    DOMAIN result[1].checks.verification_results.components
        \ ((IF result[1].checks.missing_components # <<>>
            THEN {MISSING_COMPONENTS_KEY} ELSE {})
           \cup (IF result[1].checks.missing_workloads # <<>>
                 THEN {MISSING_WORKLOADS_KEY} ELSE {}))

\* under every component, the workloads listed are those of its verification
\* entries that failed the version check or whose stability audit has errors
ListedAreFailedOrUnstable ==
    \A c \in ReportedComponents :
        \A w \in {[type |-> e.type, name |-> e.workload] :
                     e \in {result[1].checks.verification_results.components[c].workloads[i] :
                              i \in 1..Len(result[1].checks.verification_results.components[c].workloads)}} :
            (\E i \in 1..Len(result[1].report.details[c].workloads) :
                /\ result[1].report.details[c].workloads[i].type = w.type
                /\ result[1].report.details[c].workloads[i].name = w.name)
            <=> \/ AuditHasErrors(w.type, w.name)
                \/ \E i \in 1..Len(result[1].checks.verification_results.components[c].workloads) :
                     /\ result[1].checks.verification_results.components[c].workloads[i].type = w.type
                     /\ result[1].checks.verification_results.components[c].workloads[i].workload = w.name
                     /\ result[1].checks.verification_results.components[c].workloads[i].status = "FAIL"

\* the verification entries (component, position) of workloads whose
\* stability audit has errors
UnstableEntries ==
    {p \in UNION {{c} \X (1..Len(result[1].checks.verification_results.components[c].workloads)) :
                     c \in DOMAIN result[1].checks.verification_results.components} :
        AuditHasErrors(result[1].checks.verification_results.components[p[1]].workloads[p[2]].type,
                       result[1].checks.verification_results.components[p[1]].workloads[p[2]].workload)}

\* the audited workloads whose stability audit has errors
UnstableWorkloads ==
    {k \in DOMAIN result[1].checks.stability_results :
        result[1].checks.stability_results[k].errors # <<>>}

\* C23 as stated: failed or unstable workloads are the ones listed, the keys
\* _missing_components and _missing_workloads are in details exactly when
\* their lists are non-empty, and summary.unstable_workloads is the number of
\* workloads whose stability audit has errors.
C23_ReportListsAndCounts ==
    PassDone =>
        /\ ListedAreFailedOrUnstable
        /\ MISSING_COMPONENTS_KEY \in DOMAIN result[1].report.details
              <=> result[1].checks.missing_components # <<>>
        /\ MISSING_WORKLOADS_KEY \in DOMAIN result[1].report.details
              <=> result[1].checks.missing_workloads # <<>>
        /\ result[1].report.summary.unstable_workloads = Cardinality(UnstableWorkloads)

\* C23 amended: failed or unstable workloads are the ones listed; a non-empty
\* list of messages is in details under its key, and the key is otherwise in
\* details only as the name of a verified component; summary.unstable_workloads
\* is the number of verification entries whose workload's stability audit has
\* errors, so a workload verified under two components counts twice and an
\* audited workload without a verification entry does not count.
C23_ReportListsAndCountsEntries ==
    PassDone =>
        /\ ListedAreFailedOrUnstable
        /\ result[1].checks.missing_components # <<>> =>
              /\ MISSING_COMPONENTS_KEY \in DOMAIN result[1].report.details
              /\ result[1].report.details[MISSING_COMPONENTS_KEY]
                    = result[1].checks.missing_components
        /\ result[1].checks.missing_workloads # <<>> =>
              /\ MISSING_WORKLOADS_KEY \in DOMAIN result[1].report.details
              /\ result[1].report.details[MISSING_WORKLOADS_KEY]
                    = result[1].checks.missing_workloads
        /\ DOMAIN result[1].report.details
              = DOMAIN result[1].checks.verification_results.components
                \cup (IF result[1].checks.missing_components # <<>>
                      THEN {MISSING_COMPONENTS_KEY} ELSE {})
                \cup (IF result[1].checks.missing_workloads # <<>>
                      THEN {MISSING_WORKLOADS_KEY} ELSE {})
        /\ result[1].report.summary.unstable_workloads = Cardinality(UnstableEntries)

\* a report with both lists of messages, a workload listed under two
\* components and counted twice, and an unstable workload that is not counted
C23_Witness ==
    /\ PassDone
    /\ result[1].checks.missing_components # <<>>
    /\ result[1].checks.missing_workloads # <<>>
    /\ result[1].report.summary.unstable_workloads = 2
    /\ Cardinality(UnstableWorkloads) = 2
    /\ \E c \in ReportedComponents : result[1].report.details[c].workloads # <<>>

\* ------------------------------------------------------------------------
\* Properties of the discovery barrier (spec FairSpecDiscover)
\* ------------------------------------------------------------------------

\* what discover_cluster_state returned and the verdict the driver computes
\* from it
ReturnedDiscovery ==
    [results |-> result[1].inspection_results, skipped |-> result[1].skipped_workloads]

SnapshotSet(results) == {results[i] : i \in 1..Len(results)}

\* each fetched workload is either named once among the skipped or has one
\* snapshot, never both, and nothing else is returned
FetchedPartitioned ==
    /\ Len(result[1].inspection_results) + Len(result[1].skipped_workloads)
          = Len(fetch_all_workloads(call.cluster, call.include))
    /\ \A n \in 1..Len(call.cluster) :
          Cardinality(SnapshotsOf(call.cluster[n].name))
            + Cardinality({i \in 1..Len(result[1].skipped_workloads) :
                             result[1].skipped_workloads[i] = call.cluster[n].name})
          = 1
    /\ \A n \in 1..Len(call.cluster) :
          SnapshotsOf(call.cluster[n].name) = {}
              <=> name_skipped(call.skip_patterns, call.cluster[n].name)

\* the snapshots and the verdict are those of every completion order
SameForEveryOrder ==
    \A order \in CompletionOrders(task_count(call.cluster, call.skip_patterns, call.include)) :
        /\ SnapshotSet(result[1].inspection_results)
              = SnapshotSet(discover_cluster_state(call.cluster, call.namespace,
                                                   call.skip_patterns, call.include,
                                                   order).results)
        /\ pass_decision(loop_maps(ReturnedDiscovery, reads_of(call.cluster)))
              = pass_decision(LoopBody(call.cluster, order))

\* C24: discover_cluster_state returns only when no submitted task is queued
\* or running, with one snapshot per fetched workload that was not skipped
\* and the skipped names for the others; the set of snapshots and the verdict
\* the driver computes from them are those of every completion order, whatever
\* the size of the pool; and the discovery does return.
C24_DiscoveryBarrier ==
    /\ []((call.fn = "discover_cluster_state" /\ result # None
              /\ result[1].phase = "returned") =>
             /\ result[1].pending = {}
             /\ result[1].queued = <<>>
             /\ FetchedPartitioned
             /\ SameForEveryOrder)
    /\ <>(call.fn = "discover_cluster_state" => result # None /\ result[1].phase = "returned")

\* a pool of two workers returned two different snapshots, collected against
\* the submission order, and one skipped name, the verdict being FAIL
C24_Witness ==
    /\ call.fn = "discover_cluster_state"
    /\ result # None
    /\ result[1].phase = "returned"
    /\ call.max_workers = 2
    /\ Len(result[1].inspection_results) = 2
    /\ Len(result[1].skipped_workloads) = 1
    /\ result[1].inspection_results[1].name = FE_NAME
    /\ result[1].inspection_results[2].name = BE_NAME
    /\ result[1].inspection_results[1].pods # result[1].inspection_results[2].pods
    /\ pass_decision(loop_maps(ReturnedDiscovery, reads_of(call.cluster))).status = "FAIL"

\* ------------------------------------------------------------------------
\* Properties of the paginated pod listing (spec FairSpecListPods)
\* ------------------------------------------------------------------------

Listing == call.fn = "_list_pods_with_selector" /\ result # None

\* C25: the paginated pod listing ends by returning, never by raising: the
\* pods collected are the pages 1..k in order, each once, the next request
\* being for page k + 1 also after an error; requests are made only within
\* the timeout; the listing returns when the last page carried no token or
\* the timeout has elapsed, with what it collected, and it always returns.
C25_PodListingTerminates ==
    /\ [](Listing =>
            /\ result[1].pods = [i \in 1..Len(result[1].pods) |-> i]
            /\ Len(result[1].pods) <= call.pages
            /\ result[1].pc = "while" =>
                  requested_page(result[1]._continue) = Len(result[1].pods) + 1
            /\ result[1].pc = "returned" =>
                  \/ Len(result[1].pods) = call.pages
                  \/ result[1].elapsed >= call.timeout)
    /\ [][Listing /\ result'[1].pods # result[1].pods => result[1].elapsed < call.timeout]_vars
    /\ <>(call.fn = "_list_pods_with_selector" => result # None /\ result[1].pc = "returned")

\* a listing that returned two of three pages when the timeout elapsed,
\* having caught at least one listing error
C25_Witness ==
    /\ Listing
    /\ result[1].pc = "returned"
    /\ call.pages = 3
    /\ result[1].pods = <<1, 2>>
    /\ result[1].errors >= 1
    /\ result[1].elapsed >= call.timeout

\* ------------------------------------------------------------------------
\* Properties of the entries of a component bucket (spec SpecComponentMap)
\* ------------------------------------------------------------------------

\* the grouping tuple of an entry
EntryTuple(e) == <<e.workload_name, e.workload_type, e.container_name, e.actual_version>>

\* the containers (workload, position) of the call that carry a pod and parse
\* to the component k and the tuple of entry e
PodContainersOf(k, e) ==
    {p \in UNION {{i} \X (1..Len(extract_containers(call.workloads[i]))) :
                     i \in 1..Len(call.workloads)} :
        /\ extract_containers(call.workloads[p[1]])[p[2]].pod_info # None
        /\ parse_image_reference(extract_containers(call.workloads[p[1]])[p[2]].image,
                                 call.repository_anchor).ok
        /\ parse_image_reference(extract_containers(call.workloads[p[1]])[p[2]].image,
                                 call.repository_anchor).component = k
        /\ EntryTuple(e) = <<call.workloads[p[1]].name, call.workloads[p[1]].type,
                             parse_image_reference(
                                 extract_containers(call.workloads[p[1]])[p[2]].image,
                                 call.repository_anchor).component,
                             parse_image_reference(
                                 extract_containers(call.workloads[p[1]])[p[2]].image,
                                 call.repository_anchor).version>>}

\* C26: in every bucket of the map construct_component_map returns, no two
\* entries have the same (workload_name, workload_type, container_name,
\* actual_version), and an entry holds one PodInfo per container with that
\* tuple that runs in a pod: later containers were appended to the entry.
C26_BucketTuplesUnique ==
    (call.fn = "construct_component_map" /\ result # None) =>
        \A k \in DOMAIN result[1] :
            /\ \A i, j \in 1..Len(result[1][k]) :
                  EntryTuple(result[1][k][i]) = EntryTuple(result[1][k][j]) => i = j
            /\ \A i \in 1..Len(result[1][k]) :
                  Len(result[1][k][i].pods) = Cardinality(PodContainersOf(k, result[1][k][i]))

\* a bucket with two entries of one workload, for two versions, one of them
\* holding the pods of two containers
C26_Witness ==
    /\ call.fn = "construct_component_map"
    /\ result # None
    /\ BE \in DOMAIN result[1]
    /\ Len(result[1][BE]) = 2
    /\ result[1][BE][1].workload_name = result[1][BE][2].workload_name
    /\ Len(result[1][BE][1].pods) = 2
    /\ Len(result[1][BE][2].pods) = 1

\* ------------------------------------------------------------------------
\* Properties of the pod health check (spec SpecPodHealth)
\* ------------------------------------------------------------------------

\* the pod of the call is healthy as C27 puts it
PodHealthy ==
    /\ \E i \in 1..Len(call.pod.conditions) :
          call.pod.conditions[i].type = "Ready" /\ call.pod.conditions[i].status = "True"
    /\ \A i \in 1..Len(call.pod.container_statuses) :
          /\ call.pod.container_statuses[i].restart_count < call.restart_threshold
          /\ call.pod.container_statuses[i].waiting
                \notin {<<"ImagePullBackOff">>, <<"ErrImagePull">>, <<"CrashLoopBackOff">>}
    /\ call.min_uptime_sec > 0 =>
          /\ call.pod.start_time # None
          /\ call.now - call.pod.start_time[1] >= call.min_uptime_sec

Audited28 == call.fn = "audit_workload" /\ result # None

\* the audit passed its two early returns and made its checks
AuditCarriedOut ==
    \A i \in 1..Len(result[1].errors) :
        result[1].errors[i].msg
            \notin {"Invalid workload info provided", "Could not fetch workload object"}

\* the latest revision hash of the audited workload is known
HashKnown ==
    /\ call.workload_info.latest_revision # None
    /\ call.workload_info.latest_revision[1].hash # ""

\* the label the revision check reads on a pod of the audited workload
KindLabel(pod) ==
    IF call.workload_info.type = "Deployment" THEN pod.labels.pod_template_hash
    ELSE pod.labels.controller_revision_hash

\* every pod carries the latest revision hash under its kind's label
PodsAtLatest ==
    \A i \in 1..Len(call.workload_info.pods) :
        KindLabel(call.workload_info.pods[i])
            = Some(call.workload_info.latest_revision[1].hash)

\* what C28 says of one audit result
RevisionVerdict ==
    /\ call.workload_info.type \in {"Deployment", "StatefulSet", "DaemonSet"} =>
          /\ result[1].revision_consistent <=> (HashKnown /\ PodsAtLatest)
          /\ ~HashKnown =>
                \E i \in 1..Len(result[1].errors) :
                    result[1].errors[i].msg = "Could not determine latest revision hash"
    /\ call.workload_info.type \in {"Job", "CronJob"} => result[1].revision_consistent

\* a Deployment, StatefulSet or DaemonSet without a known hash, or with a pod
\* not carrying it, is not stable
NeverStableOffRevision ==
    (/\ call.workload_info.type \in {"Deployment", "StatefulSet", "DaemonSet"}
     /\ ~(HashKnown /\ PodsAtLatest)) => result[1].errors # <<>>

\* C28 as stated, of every result of audit_workload: revision_consistent of a
\* Deployment, StatefulSet or DaemonSet is true exactly when the hash is known
\* and every pod's label equals it, a missing hash gives the error, such a
\* workload is never stable, and Jobs and CronJobs are revision-consistent.
C28_RevisionConsistency ==
    Audited28 => RevisionVerdict /\ NeverStableOffRevision

\* C28 amended: the same, the verdict on revision_consistent and the error
\* being those of an audit that made its checks; an audit that returned early
\* (invalid workload info, object not fetched) leaves revision_consistent
\* false for every kind, Jobs and CronJobs included.
C28_RevisionConsistencyWhenChecked ==
    Audited28 =>
        /\ AuditCarriedOut => RevisionVerdict
        /\ ~AuditCarriedOut => ~result[1].revision_consistent
        /\ NeverStableOffRevision

\* a StatefulSet whose hash is known and whose pod carries pod-template-hash
\* only was audited and found inconsistent
C28_Witness ==
    /\ Audited28
    /\ AuditCarriedOut
    /\ call.workload_info.type = "StatefulSet"
    /\ HashKnown
    /\ Len(call.workload_info.pods) = 1
    /\ call.workload_info.pods[1].labels.pod_template_hash
          = Some(call.workload_info.latest_revision[1].hash)
    /\ call.workload_info.pods[1].labels.controller_revision_hash = None
    /\ ~result[1].revision_consistent

\* ------------------------------------------------------------------------
\* Properties of a component whose carriers are all skipped (spec SpecPass)
\* ------------------------------------------------------------------------

\* the workloads of the cluster one of whose containers parses to component c
Carriers(c) ==
    {n \in 1..Len(call.cluster) :
        \E image \in WorkloadImages(call.cluster[n]) :
            /\ parse_image_reference(image, args.anchor).ok
            /\ parse_image_reference(image, args.anchor).component = c}

\* every carrier of c is excluded by a skip pattern: the pattern is a
\* substring of the carrier's name or of the component name c
CarriersExcluded(c) ==
    \A n \in Carriers(c) : SkipPatternIn(call.cluster[n].name) \/ SkipPatternIn(c)

\* the pass reports component c as not found, in both lists
ReportedNotFound(c) ==
    /\ \E i \in 1..Len(result[1].checks.missing_components) :
          result[1].checks.missing_components[i]
              = [msg |-> "Component not found in cluster", component |-> c]
    /\ \E i \in 1..Len(result[1].checks.verification_results.errors) :
          result[1].checks.verification_results.errors[i]
              = [msg |-> "Component not found", component |-> c]
    /\ result[1].checks.verification_results.components[c].status = "FAIL"
    /\ result[1].checks.verification_results.components[c].workloads = <<>>

\* C29: when every workload carrying a manifest component is excluded by a
\* skip pattern, through its name or through the component's name, the
\* component has no bucket in the component map, validate_manifest and
\* verify_versions both report it as not found, and the pass does not end
\* with PASS: a dry run ends FAIL and any other run sleeps and retries.
C29_SkippedComponentNeverPasses ==
    PassDone =>
        \A m \in 1..Len(args.manifest) :
            CarriersExcluded(args.manifest[m].name) =>
                /\ args.manifest[m].name \notin DOMAIN result[1].checks.component_map
                /\ ReportedNotFound(args.manifest[m].name)
                /\ result[1].decision = IF args.dry_run THEN [status |-> "FAIL", pc |-> "report"]
                                        ELSE [status |-> "PASS", pc |-> "sleep"]

\* the frontend is carried by the workload web only, which the pattern web
\* excludes by name, while the backend is mapped: the pass of a run that is
\* not a dry run sleeps
C29_Witness ==
    /\ PassDone
    /\ ~args.dry_run
    /\ args.skip_containers = <<WEB_NAME>>
    /\ Len(args.manifest) = 2
    /\ Cardinality(Carriers(FE)) = 1
    /\ \A n \in Carriers(FE) : call.cluster[n].name = WEB_NAME
    /\ BE \in DOMAIN result[1].checks.component_map
    /\ FE \notin DOMAIN result[1].checks.component_map
    /\ result[1].checks.all_stable
    /\ result[1].decision.pc = "sleep"

\* ------------------------------------------------------------------------
\* Properties of the report of a run that timed out (spec Spec)
\* ------------------------------------------------------------------------

\* the report generate_report makes with status TIMEOUT of the values b that
\* a pass assigned
TimeoutReportOf(b) ==
    generate_report("TIMEOUT", b.verification_results, b.stability_results,
                    b.missing_components, b.missing_workloads, args.namespace, b.skipped)

\* the values before any pass has made its checks (lines 753-757)
NothingChecked ==
    [verification_results |-> EmptyVerificationResults, stability_results |-> <<>>,
     missing_components |-> <<>>, missing_workloads |-> <<>>, skipped |-> <<>>]

====
